---- MODULE Spec2Model ----
(***************************************************************************)
(* The CBS projects table-to-Turtle scripts as one state machine.         *)
(*                                                                         *)
(* A spreadsheet (df) is read row by row; then one of the generator        *)
(* scripts runs over it: process_excel_to_turtle (excel_to_turtle.py),     *)
(* which loops over the rows, consults the organization cache and writes   *)
(* the Turtle file, or generate_turtle_rdf (generate_turtle.py), followed  *)
(* by the backslash repair pass (fix_backslashes.py).                      *)
(*                                                                         *)
(* A Python str is a sequence of one-character strings; a missing cell     *)
(* (NaN) and a timestamp cell are sequences that no str equals.            *)
(***************************************************************************)
EXTENDS Naturals, Sequences, FiniteSets, TLC

VARIABLES
    pc,             \* position of the running script
    dom,            \* the cell values the columns of the sheet are drawn from
    df,             \* the rows of the spreadsheet, as pd.read_excel returns them
    i,              \* rows the loop of process_excel_to_turtle has handled
    cacheFile,      \* the organization cache file on disk
    loadedFrom,     \* the cache file as it was when the run loaded it
    loadedCache,    \* what the cache loader of the run returned
    org_cache,      \* process_excel_to_turtle: org_cache
    cache,          \* OrganizationLookup: self.cache
    classified,     \* names classify_organization was applied to in the run
    draws,          \* ids drawn from the seeded random generator
    projects,       \* process_excel_to_turtle: projects (in insertion order)
    datasets,       \* process_excel_to_turtle: datasets (in insertion order)
    organizations,  \* process_excel_to_turtle: organizations (insertion order)
    outFile,        \* the Turtle file on disk
    prevFile,       \* the Turtle file before the last post-processing pass
    fixes,          \* repair passes applied to the Turtle file
    columns,        \* the columns the spreadsheet has
    orgFile,        \* the organization profile file on disk
    integrations,   \* integration passes applied to the Turtle file
    replacements,   \* vocabulary passes applied to the Turtle file
    arg,            \* the argument of the function under call
    ret,            \* what the last call returned or reported
    rerun,          \* the script a second run over the same input repeats
    firstOut        \* the Turtle file the first of two runs wrote

vars == <<pc, dom, df, i, cacheFile, loadedFrom, loadedCache, org_cache, cache,
          classified, draws, projects, datasets, organizations, outFile,
          prevFile, fixes, columns, orgFile, integrations, replacements,
          arg, ret, rerun, firstOut>>

\* the state only the later passes and the calls of single functions use
added == <<columns, orgFile, integrations, replacements, arg, ret, rerun,
          firstOut>>

----------------------------------------------------------------------------
(* Bounds of the model *)

MaxRows == 2
MaxLen == 4
MaxFix == 2

----------------------------------------------------------------------------
(* Characters and strings *)

BS == "\\"
DQ == "\""

\* The characters of the model in code point order.
CodeOrder ==
    <<" ", DQ, ".", "0", "1", "2", "3", "4", "5", "6", "7", "8", "9",
      "A", "B", "C", "D", "E", "F", "G", "H", "I", "J", "K", "L", "M",
      "N", "O", "P", "Q", "R", "S", "T", "U", "V", "W", "X", "Y", "Z",
      BS, "_",
      "a", "b", "c", "d", "e", "f", "g", "h", "i", "j", "k", "l", "m",
      "n", "o", "p", "q", "r", "s", "t", "u", "v", "w", "x", "y", "z">>

\* ord(c), counted from the first character of the model
CodePoints ==
    [c \in {CodeOrder[n] : n \in 1..Len(CodeOrder)} |->
        CHOOSE n \in 1..Len(CodeOrder) : CodeOrder[n] = c]

Ord(c) == CodePoints[c]

\* str.lower() by character
LowerChars ==
    [c \in DOMAIN CodePoints |->
        IF CodePoints[c] >= CodePoints["A"] /\ CodePoints[c] <= CodePoints["Z"]
        THEN CodeOrder[CodePoints[c] + (CodePoints["a"] - CodePoints["A"])]
        ELSE c]

IsUpper(c) == Ord(c) >= Ord("A") /\ Ord(c) <= Ord("Z")
IsLowerCh(c) == Ord(c) >= Ord("a") /\ Ord(c) <= Ord("z")
IsDigit(c) == Ord(c) >= Ord("0") /\ Ord(c) <= Ord("9")
IsSpace(c) == c = " "

\* str.lower() on one character
LowerChar(c) == LowerChars[c]

Lower(s) == [n \in 1..Len(s) |-> LowerChar(s[n])]

\* str.replace(c, rep) for a one-character pattern c
RECURSIVE ReplaceChar(_, _, _)
ReplaceChar(s, c, rep) ==
    IF s = <<>> THEN <<>>
    ELSE (IF Head(s) = c THEN rep ELSE <<Head(s)>>) \o ReplaceChar(Tail(s), c, rep)

\* needle in hay (substring test)
Contains(hay, needle) ==
    \E n \in 0..(Len(hay) - Len(needle)) :
        \A m \in 1..Len(needle) : hay[n + m] = needle[m]

\* str.strip()
RECURSIVE LStrip(_)
LStrip(s) == IF s # <<>> /\ IsSpace(Head(s)) THEN LStrip(Tail(s)) ELSE s

RECURSIVE RStrip(_)
RStrip(s) ==
    IF s # <<>> /\ IsSpace(s[Len(s)]) THEN RStrip(SubSeq(s, 1, Len(s) - 1)) ELSE s

Strip(s) == RStrip(LStrip(s))

\* lexicographic order of two strings, by code point (Python's str order)
RECURSIVE StrLess(_, _)
StrLess(a, b) ==
    IF b = <<>> THEN FALSE
    ELSE IF a = <<>> THEN TRUE
    ELSE IF Ord(Head(a)) # Ord(Head(b)) THEN Ord(Head(a)) < Ord(Head(b))
    ELSE StrLess(Tail(a), Tail(b))

Range(s) == {s[n] : n \in 1..Len(s)}

\* All strings over alphabet of length at most n
RECURSIVE StringsUpTo(_, _)
StringsUpTo(alphabet, n) ==
    IF n = 0 THEN {<<>>}
    ELSE LET shorter == StringsUpTo(alphabet, n - 1)
         IN shorter \cup {Append(s, c) : s \in shorter, c \in alphabet}

----------------------------------------------------------------------------
(* Cells of the spreadsheet *)

\* pandas' missing value; pd.isna / pd.notna
NaN == <<"NaN">>
\* Python's None: a cell row.get finds no column for, a date that has no value
None == <<"None">>

\* pd.isna / pd.notna: NaN and None are both missing
isna(x) == x = NaN \/ x = None
notna(x) == ~isna(x)

\* a cell Excel stores as a date: pandas returns a Timestamp
Timestamp(d) == <<"Timestamp", d>>
IsTimestamp(x) == Len(x) = 2 /\ x[1] = "Timestamp"
strftime(x) == <<x[2]>>

----------------------------------------------------------------------------
(* URIs *)

ProjectUri(project_num) == [ns |-> "project", id |-> project_num]
DatasetUri(random_id) == [ns |-> "dataset", id |-> random_id]
OrganizationUri(clean_name) == [ns |-> "organization", id |-> clean_name]
NoUri == [ns |-> "", id |-> <<>>]

\* Python's order of two URI strings of one namespace
UriLess(u, v) == StrLess(u.id, v.id)

\* sorted(set_of_uris)
RECURSIVE sorted(_)
sorted(S) ==
    IF S = {} THEN <<>>
    ELSE LET least == CHOOSE u \in S : \A v \in S \ {u} : UriLess(u, v)
         IN <<least>> \o sorted(S \ {least})

\* random.seed(42) fixes the ids generate_random_id returns: the n-th call
\* returns the n-th id of the list (the first four of its 32 characters).
\* excel_to_turtle.generate_random_id draws with random.choices:
\*   Nbrn..., H8xI..., 0Wob..., 9G81..., 2Ztd..., eNo4..., p5B1..., dKF0...
RandomIdsChoices ==
    << <<"N", "b", "r", "n">>, <<"H", "8", "x", "I">>,
       <<"0", "W", "o", "b">>, <<"9", "G", "8", "1">>,
       <<"2", "Z", "t", "d">>, <<"e", "N", "o", "4">>,
       <<"p", "5", "B", "1">>, <<"d", "K", "F", "0">> >>

\* generate_turtle.generate_random_id draws with random.choice per character:
\*   OhbV..., oCLr..., Ih7y..., xkxw..., do0c..., VLB5..., 8aRU..., t1OG...
RandomIdsChoice ==
    << <<"O", "h", "b", "V">>, <<"o", "C", "L", "r">>,
       <<"I", "h", "7", "y">>, <<"x", "k", "x", "w">>,
       <<"d", "o", "0", "c">>, <<"V", "L", "B", "5">>,
       <<"8", "a", "R", "U">>, <<"t", "1", "O", "G">> >>

\* re.sub(r'[^a-zA-Z0-9\s]', '', s)
RECURSIVE RemoveNonAlnumSpace(_)
RemoveNonAlnumSpace(s) ==
    IF s = <<>> THEN <<>>
    ELSE LET c == Head(s)
             keep == IsUpper(c) \/ IsLowerCh(c) \/ IsDigit(c) \/ IsSpace(c)
         IN (IF keep THEN <<c>> ELSE <<>>) \o RemoveNonAlnumSpace(Tail(s))

\* re.sub(r'\s+', '_', s)
RECURSIVE CollapseSpaces(_)
CollapseSpaces(s) ==
    IF s = <<>> THEN <<>>
    ELSE IF IsSpace(Head(s))
         THEN <<"_">> \o CollapseSpaces(LStrip(s))
         ELSE <<Head(s)>> \o CollapseSpaces(Tail(s))

UriNameLimit == 50

Truncate(s, n) == IF Len(s) > n THEN SubSeq(s, 1, n) ELSE s

\* lines 36-37 of excel_to_turtle.py without the truncation of lines 38-39
CleanName_untruncated(org_name) ==
    Lower(CollapseSpaces(Strip(RemoveNonAlnumSpace(org_name))))

CleanName(org_name) ==
    Truncate(Lower(CollapseSpaces(Strip(RemoveNonAlnumSpace(org_name)))),
             UriNameLimit)

generate_organization_uri(org_name) == OrganizationUri(CleanName(org_name))

\* integrate_organizations.generate_organization_uri
IntegrateUriNameLimit == 50

integrate_generate_organization_uri(org_name) ==
    LET removed == RemoveNonAlnumSpace(org_name)
        clean_name == Lower(CollapseSpaces(Strip(removed)))
    IN OrganizationUri(IF Len(clean_name) > IntegrateUriNameLimit
                       THEN SubSeq(clean_name, 1, IntegrateUriNameLimit)
                       ELSE clean_name)

\* OrganizationLookup.generate_organization_uri
LookupUriNameLimit == 50

lookup_generate_organization_uri(org_name) ==
    LET removed == RemoveNonAlnumSpace(org_name)
        clean_name == Lower(CollapseSpaces(Strip(removed)))
    IN OrganizationUri(IF Len(clean_name) > LookupUriNameLimit
                       THEN SubSeq(clean_name, 1, LookupUriNameLimit)
                       ELSE clean_name)

----------------------------------------------------------------------------
(* classify_organization *)

EducationWords ==
    << <<"u","n","i","v","e","r","s","i","t","e","i","t">>,
       <<"u","n","i","v","e","r","s","i","t","y">>,
       <<"h","o","g","e","s","c","h","o","o","l">>,
       <<"c","o","l","l","e","g","e">> >>

GovernmentWords ==
    << <<"m","i","n","i","s","t","e","r","i","e">>,
       <<"m","i","n","i","s","t","r","y">>,
       <<"g","e","m","e","e","n","t","e">>,
       <<"p","r","o","v","i","n","c","i","e">>,
       <<"g","o","v","e","r","n","m","e","n","t">> >>

ResearchWords ==
    << <<"o","n","d","e","r","z","o","e","k">>,
       <<"r","e","s","e","a","r","c","h">>,
       <<"i","n","s","t","i","t","u","u","t">>,
       <<"i","n","s","t","i","t","u","t","e">>,
       <<"p","l","a","n","b","u","r","e","a","u">> >>

CorporateWords ==
    << <<"b","v">>, <<"n","v">>, <<"l","t","d">>, <<"i","n","c">>,
       <<"c","o","r","p">>, <<"c","o","m","p","a","n","y">> >>

\* any(word in name_lower for word in words)
AnyWordIn(words, name_lower) ==
    \E n \in 1..Len(words) : Contains(name_lower, words[n])

\* classify_organization without its final else branch
classify_organization_partial(org_name) ==
    LET name_lower == Lower(org_name)
    IN IF AnyWordIn(EducationWords, name_lower) THEN "schema:EducationalOrganization"
       ELSE IF AnyWordIn(GovernmentWords, name_lower) THEN "schema:GovernmentOrganization"
       ELSE IF AnyWordIn(ResearchWords, name_lower) THEN "schema:ResearchOrganization"
       ELSE IF AnyWordIn(CorporateWords, name_lower) THEN "schema:Corporation"
       ELSE "None"

\* classify_organization with the corporate keywords tested first
classify_organization_corporate_first(org_name) ==
    LET name_lower == Lower(org_name)
    IN IF AnyWordIn(CorporateWords, name_lower) THEN "schema:Corporation"
       ELSE IF AnyWordIn(EducationWords, name_lower) THEN "schema:EducationalOrganization"
       ELSE IF AnyWordIn(GovernmentWords, name_lower) THEN "schema:GovernmentOrganization"
       ELSE IF AnyWordIn(ResearchWords, name_lower) THEN "schema:ResearchOrganization"
       ELSE "schema:Organization"

classify_organization(org_name) ==
    LET name_lower == Lower(org_name)
    IN IF AnyWordIn(EducationWords, name_lower) THEN "schema:EducationalOrganization"
       ELSE IF AnyWordIn(GovernmentWords, name_lower) THEN "schema:GovernmentOrganization"
       ELSE IF AnyWordIn(ResearchWords, name_lower) THEN "schema:ResearchOrganization"
       ELSE IF AnyWordIn(CorporateWords, name_lower) THEN "schema:Corporation"
       ELSE "schema:Organization"

----------------------------------------------------------------------------
(* The organization cache file *)

EmptyMap == <<>>

CacheFileOf(status, data) == [status |-> status, data |-> data]

os_path_exists(f) == f.status # "missing"

\* what open(...) followed by json.load raises on the file, "none" if nothing
OpenAndLoadRaises(f) ==
    CASE f.status = "missing" -> "FileNotFoundError"
      [] f.status = "unreadable" -> "PermissionError"
      [] f.status = "malformed" -> "JSONDecodeError"
      [] OTHER -> "none"

Returned(value) == [raised |-> FALSE, value |-> value]
Raised == [raised |-> TRUE, value |-> EmptyMap]

\* excel_to_turtle.load_organization_cache without its try/except
load_organization_cache_unguarded(f) ==
    IF os_path_exists(f)
    THEN IF OpenAndLoadRaises(f) = "none" THEN Returned(f.data) ELSE Raised
    ELSE Returned(EmptyMap)

\* excel_to_turtle.load_organization_cache
load_organization_cache(f) ==
    IF os_path_exists(f)
    THEN IF OpenAndLoadRaises(f) = "none"
         THEN Returned(f.data)
         ELSE Returned(EmptyMap)      \* except: pass, then return {}
    ELSE Returned(EmptyMap)

\* OrganizationLookup.load_cache
load_cache(f) ==
    IF os_path_exists(f)
    THEN IF OpenAndLoadRaises(f) = "none"
         THEN Returned(f.data)
         ELSE Returned(EmptyMap)      \* except Exception: return {}
    ELSE Returned(EmptyMap)

\* integrate_organizations.load_organization_cache
integrate_load_organization_cache(f) ==
    IF OpenAndLoadRaises(f) = "none"
    THEN Returned(f.data)
    ELSE Returned(EmptyMap)           \* except Exception: return {}

\* excel_to_turtle.save_organization_cache: the whole file is overwritten
save_organization_cache(mapping) == CacheFileOf("ok", mapping)

----------------------------------------------------------------------------
(* Literals and dates *)

\* excel_to_turtle.escape_turtle_string
escape_turtle_string(text) ==
    IF isna(text) THEN <<>>
    ELSE ReplaceChar(ReplaceChar(text, BS, <<BS, BS>>), DQ, <<BS, DQ>>)

\* generate_turtle: str(x).replace('"', '\\"')
escape_quotes(text) == ReplaceChar(text, DQ, <<BS, DQ>>)

\* the date strings pd.to_datetime / datetime.strptime can parse
ParsableDates == { <<"2", "0">> }
ParsedDate(s) == <<"2020-01-01">>

\* excel_to_turtle.format_date
format_date(date_value) ==
    IF isna(date_value) THEN None
    ELSE IF IsTimestamp(date_value) THEN strftime(date_value)
    ELSE IF date_value \in ParsableDates THEN ParsedDate(date_value)
    ELSE None

\* generate_turtle.format_date_for_rdf
format_date_for_rdf(date_value) ==
    IF isna(date_value) THEN None
    ELSE IF IsTimestamp(date_value) THEN strftime(date_value)
    ELSE IF date_value \in ParsableDates THEN ParsedDate(date_value)
    ELSE None

----------------------------------------------------------------------------
(* Lines of a Turtle file *)

\* A line: its kind k, the URI on it, the text between the quotes of its
\* literal (or its class name), and the terminator that ends it.
Line(k, uri, lit, t) == [k |-> k, uri |-> uri, lit |-> lit, t |-> t]

Subject(uri) == Line("subject", uri, <<>>, "")
Blank == Line("blank", NoUri, <<>>, "")
Comment(text) == Line("comment", NoUri, <<text>>, "")
Prefix(name) == Line("prefix", NoUri, <<name>>, ".")

PredicateKinds ==
    {"dc:title", "schema:startDate", "schema:endDate", "dc:requires",
     "schema:parentOrganization", "dc:alternative", "rdf:type", "foaf:name",
     "foaf:focus", "rdfs:comment", "foaf:member"}

IsPredicateLine(l) == l.k \in PredicateKinds

NoFile == [exists |-> FALSE, lines |-> <<>>]
FileOf(lines) == [exists |-> TRUE, lines |-> lines]

\* the concatenation of the sequences f(1), ..., f(n)
RECURSIVE FlattenTo(_, _)
FlattenTo(f, n) == IF n = 0 THEN <<>> ELSE FlattenTo(f, n - 1) \o f[n]

Flatten(f) == FlattenTo(f, Len(f))

----------------------------------------------------------------------------
(* process_excel_to_turtle: the in-memory entity graph *)

Keys(records) == {records[n].key : n \in 1..Len(records)}
Lookup(records, key) == records[CHOOSE n \in 1..Len(records) : records[n].key = key]

\* lines 138-145: the project record of a row that is the first of its project
NewProject(project_uri, row) ==
    [key |-> project_uri,
     title |-> escape_turtle_string(row.Onderzoek),
     start_date |-> format_date(row.Startdatum),
     end_date |-> format_date(row.Einddatum),
     datasets |-> {},
     organizations |-> {}]

\* lines 138-145
StoreProject(projs, project_uri, row) ==
    IF project_uri \notin Keys(projs)
    THEN Append(projs, NewProject(project_uri, row))
    ELSE projs

\* lines 148: pd.notna(x) and x.strip()
Present(x) == notna(x) /\ Strip(x) # <<>>

\* lines 149-154 without the membership test of line 149: a name that is
\* already stored gets a fresh URI
StoreDataset_reassigning(dsets, n, dataset_name) ==
    IF dataset_name \notin Keys(dsets)
    THEN Append(dsets, [key |-> dataset_name,
                        uri |-> DatasetUri(RandomIdsChoices[n + 1]),
                        name |-> escape_turtle_string(dataset_name)])
    ELSE [m \in 1..Len(dsets) |->
            IF dsets[m].key = dataset_name
            THEN [dsets[m] EXCEPT !.uri = DatasetUri(RandomIdsChoices[n + 1])]
            ELSE dsets[m]]

\* lines 149-154
StoreDataset(dsets, n, dataset_name) ==
    IF dataset_name \notin Keys(dsets)
    THEN Append(dsets, [key |-> dataset_name,
                        uri |-> DatasetUri(RandomIdsChoices[n + 1]),
                        name |-> escape_turtle_string(dataset_name)])
    ELSE dsets

\* line 156: projects[project_uri]['datasets'].add(uri)
AddDataset(projs, project_uri, uri) ==
    [n \in 1..Len(projs) |->
        IF projs[n].key = project_uri
        THEN [projs[n] EXCEPT !.datasets = @ \cup {uri}]
        ELSE projs[n]]

\* line 178: projects[project_uri]['organizations'].add(org_uri)
AddOrganization(projs, project_uri, uri) ==
    [n \in 1..Len(projs) |->
        IF projs[n].key = project_uri
        THEN [projs[n] EXCEPT !.organizations = @ \cup {uri}]
        ELSE projs[n]]

\* lines 164-171: the entry the organization is described by
ResolveOrganization(mapping, institution) ==
    IF institution \in DOMAIN mapping
    THEN mapping[institution]
    ELSE [name |-> institution, type |-> classify_organization(institution)]

\* line 171: org_cache[institution] = org_info
PutCache(mapping, name, entry) ==
    [n \in DOMAIN mapping \cup {name} |-> IF n = name THEN entry ELSE mapping[n]]

\* lines 173-176
StoreOrganization(orgs, org_uri, org_info) ==
    Append(orgs, [key |-> org_uri,
                  name |-> escape_turtle_string(org_info.name),
                  type |-> org_info.type])

----------------------------------------------------------------------------
(* process_excel_to_turtle: the Turtle file, lines 191-251 *)

ExcelHeader ==
    <<Prefix("schema"), Prefix("xsd"), Prefix("dc"), Prefix("foaf"),
      Prefix("rdf"), Prefix("rdfs"), Blank,
      Comment("# CBS Projects with end dates before 2025"),
      Comment("# Generated from Excel data"), Blank>>

\* lines 226-230: the last organization line closes the block
OrganizationLines(org_list) ==
    [n \in 1..Len(org_list) |->
        Line("schema:parentOrganization", org_list[n], <<>>,
             IF n = Len(org_list) THEN "." ELSE ";")]

\* lines 208-232
ExcelProjectBlock(p) ==
    <<Subject(p.key)>>
    \o (IF p.title # <<>> THEN <<Line("dc:title", NoUri, p.title, ";")>> ELSE <<>>)
    \o (IF p.start_date # None
        THEN <<Line("schema:startDate", NoUri, p.start_date, ";")>> ELSE <<>>)
    \o (IF p.end_date # None
        THEN <<Line("schema:endDate", NoUri, p.end_date, ";")>> ELSE <<>>)
    \o (LET ds == sorted(p.datasets)
        IN [n \in 1..Len(ds) |-> Line("dc:requires", ds[n], <<>>, ";")])
    \o OrganizationLines(sorted(p.organizations))
    \o <<Blank>>

\* lines 236-241 with the block of a dataset written twice
ExcelDatasetBlock_repeated(d) ==
    <<Subject(d.uri), Line("dc:alternative", NoUri, d.name, "."), Blank,
      Subject(d.uri), Line("dc:alternative", NoUri, d.name, "."), Blank>>

\* lines 236-241
ExcelDatasetBlock(d) ==
    <<Subject(d.uri), Line("dc:alternative", NoUri, d.name, "."), Blank>>

\* lines 245-251
ExcelOrganizationBlock(o) ==
    <<Subject(o.key), Line("rdf:type", NoUri, <<o.type>>, ";"),
      Line("foaf:name", NoUri, o.name, "."), Blank>>

ExcelTurtle(projs, dsets, orgs) ==
    ExcelHeader
    \o Flatten([n \in 1..Len(projs) |-> ExcelProjectBlock(projs[n])])
    \o <<Comment("# Datasets")>>
    \o Flatten([n \in 1..Len(dsets) |-> ExcelDatasetBlock(dsets[n])])
    \o <<Comment("# Organizations")>>
    \o Flatten([n \in 1..Len(orgs) |-> ExcelOrganizationBlock(orgs[n])])

----------------------------------------------------------------------------
(* generate_turtle_rdf *)

\* the values of a column in the rows of a data frame
Column(frame, col) == [n \in 1..Len(frame) |-> frame[n][col]]

\* the rows of a data frame whose positions are in S, in order
RECURSIVE Rows(_, _)
Rows(frame, S) ==
    IF frame = <<>> THEN <<>>
    ELSE Rows(SubSeq(frame, 1, Len(frame) - 1), S)
         \o (IF Len(frame) \in S THEN <<frame[Len(frame)]>> ELSE <<>>)

\* Series.unique(): the distinct values in order of first appearance
RECURSIVE Unique(_)
Unique(values) ==
    IF values = <<>> THEN <<>>
    ELSE LET before == Unique(SubSeq(values, 1, Len(values) - 1))
             last == values[Len(values)]
         IN IF \E n \in 1..Len(before) : before[n] = last
            THEN before ELSE Append(before, last)

\* the group keys of df.groupby(col): the non-null values, sorted
RECURSIVE SortedKeys(_)
SortedKeys(S) ==
    IF S = {} THEN <<>>
    ELSE LET least == CHOOSE u \in S : \A v \in S \ {u} : StrLess(u, v)
         IN <<least>> \o SortedKeys(S \ {least})

GroupKeys(frame, col) ==
    SortedKeys({frame[n][col] : n \in {m \in 1..Len(frame) : notna(frame[m][col])}})

\* GroupBy.first of pandas: the first non-null value of the column in the
\* group, NaN when every value of the group is null
GroupFirst(frame, key, col) ==
    LET found == Rows(frame, {n \in 1..Len(frame) :
                                 frame[n].Projectnummer = key /\ notna(frame[n][col])})
    IN IF found = <<>> THEN NaN ELSE found[1][col]

\* lines 79-84
UniqueProjects(frame) ==
    LET keys == GroupKeys(frame, "Projectnummer")
    IN [n \in 1..Len(keys) |->
          [Projectnummer |-> keys[n],
           Startdatum |-> GroupFirst(frame, keys[n], "Startdatum"),
           Einddatum |-> GroupFirst(frame, keys[n], "Einddatum"),
           Onderzoek |-> GroupFirst(frame, keys[n], "Onderzoek")]]

\* line 87: df[dataset_col].dropna().unique()
UniqueDatasets(frame) ==
    Unique(Column(Rows(frame, {n \in 1..Len(frame) : notna(frame[n].Bestandsnaam)}),
                  "Bestandsnaam"))

\* lines 91-95: the n-th unique dataset name gets the n-th id drawn
DatasetUriMapping(unique_datasets) ==
    [n \in 1..Len(unique_datasets) |->
        [key |-> unique_datasets[n], uri |-> DatasetUri(RandomIdsChoice[n])]]

\* lines 98-99: the names of the rows of a project that have a name, as a list
ProjectDatasets(frame, project_number) ==
    LET pairs == {n \in 1..Len(frame) :
                     notna(frame[n].Projectnummer) /\ notna(frame[n].Bestandsnaam)}
        group == {n \in pairs : frame[n].Projectnummer = project_number}
    IN Column(Rows(frame, group), "Bestandsnaam")

\* lines 139-162: the properties of a project, unterminated
GenProperties(frame, mapping, row) ==
    LET title == row.Onderzoek
        formatted_start_date == format_date_for_rdf(row.Startdatum)
        formatted_end_date == format_date_for_rdf(row.Einddatum)
        names == ProjectDatasets(frame, row.Projectnummer)
    IN (IF notna(title) /\ title # <<>>
        THEN <<Line("dc:title", NoUri, escape_quotes(title), "")>> ELSE <<>>)
       \o (IF formatted_start_date # None
           THEN <<Line("schema:startDate", NoUri, formatted_start_date, "")>>
           ELSE <<>>)
       \o (IF formatted_end_date # None
           THEN <<Line("schema:endDate", NoUri, formatted_end_date, "")>>
           ELSE <<>>)
       \o [n \in 1..Len(names) |->
             Line("dc:requires", Lookup(mapping, names[n]).uri, <<>>, "")]

\* lines 165-172: the last property ends with '.', the others with ';'
Terminate(properties) ==
    [n \in 1..Len(properties) |->
        [properties[n] EXCEPT !.t = IF n = Len(properties) THEN "." ELSE ";"]]

\* lines 116-173: the block of one row of unique_projects
GenProjectBlock(frame, mapping, row) ==
    LET project_number == row.Projectnummer
        title == row.Onderzoek
        properties == GenProperties(frame, mapping, row)
    IN IF isna(project_number) \/ project_number = <<>> THEN <<>>
       ELSE IF /\ format_date_for_rdf(row.Startdatum) = None
               /\ format_date_for_rdf(row.Einddatum) = None
               /\ (isna(title) \/ title = <<>>)
            THEN <<>>
       ELSE IF properties # <<>>
            THEN <<Subject(ProjectUri(project_number))>>
                 \o Terminate(properties) \o <<Blank>>
       ELSE <<>>

\* lines 177-191
GenDatasetBlock(mapping, dataset_name) ==
    IF isna(dataset_name) \/ dataset_name = <<>> THEN <<>>
    ELSE <<Subject(Lookup(mapping, dataset_name).uri),
           Line("dc:alternative", NoUri, escape_quotes(dataset_name), "."),
           Blank>>

GenHeader == <<Prefix("schema"), Prefix("xsd"), Prefix("dc"), Blank>>

\* lines 105-191: turtle_content
GenTurtle(frame) ==
    LET unique_projects == UniqueProjects(frame)
        unique_datasets == UniqueDatasets(frame)
        mapping == DatasetUriMapping(unique_datasets)
    IN GenHeader
       \o Flatten([n \in 1..Len(unique_projects) |->
                     GenProjectBlock(frame, mapping, unique_projects[n])])
       \o Flatten([n \in 1..Len(unique_datasets) |->
                     GenDatasetBlock(mapping, unique_datasets[n])])

----------------------------------------------------------------------------
(* fix_backslashes_in_turtle *)

\* the position of the first double quote of s, Len(s) + 1 when it has none
FirstQuote(s) ==
    IF \E n \in 1..Len(s) : s[n] = DQ
    THEN CHOOSE n \in 1..Len(s) : s[n] = DQ /\ \A m \in 1..(n - 1) : s[m] # DQ
    ELSE Len(s) + 1

\* line 34: quoted_value.replace('\\', '\\\\')
DoubleBackslashes(quoted_value) == ReplaceChar(quoted_value, BS, <<BS, BS>>)

\* lines 28-43 on one dc:alternative line: the pattern "([^"]*)" matches from
\* the opening quote to the first double quote after it, which is a quote
\* inside the literal when the literal has one
FixLiteral(lit) ==
    LET q == FirstQuote(lit)
    IN DoubleBackslashes(SubSeq(lit, 1, q - 1)) \o SubSeq(lit, q, Len(lit))

\* lines 40-43: re.sub over the content
FixContent(lines) ==
    [n \in 1..Len(lines) |->
        IF lines[n].k = "dc:alternative"
        THEN [lines[n] EXCEPT !.lit = FixLiteral(@)]
        ELSE lines[n]]

----------------------------------------------------------------------------
(* OrganizationLookup *)

LookupGovernmentWords ==
    << <<"m","i","n","i","s","t","e","r","i","e">>,
       <<"m","i","n","i","s","t","r","y">>, <<"r","i","j","k","s">>,
       <<"g","o","v","e","r","n","m","e","n","t">> >>

LookupResearchWords ==
    << <<"p","l","a","n","b","u","r","e","a","u">>,
       <<"b","u","r","e","a","u">>, <<"i","n","s","t","i","t","u","u","t">>,
       <<"i","n","s","t","i","t","u","t","e">> >>

LookupPrivateWords ==
    << <<"b","v">>, <<"b",".","v",".">>, <<"l","t","d">>, <<"i","n","c">>,
       <<"c","o","r","p">> >>

dutch_cities ==
    << <<"a","m","s","t","e","r","d","a","m">>,
       <<"r","o","t","t","e","r","d","a","m">>,
       <<"u","t","r","e","c","h","t">>,
       <<"e","i","n","d","h","o","v","e","n">>,
       <<"t","i","l","b","u","r","g">>,
       <<"g","r","o","n","i","n","g","e","n">>, <<"l","e","i","d","e","n">>,
       <<"d","e","l","f","t">>, <<"m","a","a","s","t","r","i","c","h","t">>,
       <<"n","i","j","m","e","g","e","n">>, <<"t","w","e","n","t","e">>,
       <<"w","a","g","e","n","i","n","g","e","n">> >>

\* str.title() of a lower-case word
UpperChar(c) == IF IsLowerCh(c) THEN CodeOrder[Ord(c) - (Ord("a") - Ord("A"))] ELSE c
Title(word) == <<UpperChar(Head(word))>> \o Tail(word)

\* str.split('_') and '_'.join
RECURSIVE FirstPart(_)
FirstPart(s) ==
    IF s = <<>> \/ Head(s) = "_" THEN <<>> ELSE <<Head(s)>> \o FirstPart(Tail(s))

AfterFirstPart(s) == SubSeq(s, Len(FirstPart(s)) + 2, Len(s))

\* analyze_organization_name, lines 88-102: org_type and sector
OrgTypeInfo(org_name) ==
    LET lower == Lower(org_name)
    IN IF AnyWordIn(EducationWords, lower)
       THEN [org_type |-> "Educational Institution", sector |-> "Education"]
       ELSE IF AnyWordIn(LookupGovernmentWords, lower)
       THEN [org_type |-> "Government Agency", sector |-> "Government"]
       ELSE IF AnyWordIn(LookupResearchWords, lower)
       THEN [org_type |-> "Research Institute", sector |-> "Research"]
       ELSE IF AnyWordIn(LookupPrivateWords, lower)
       THEN [org_type |-> "Private Company", sector |-> "Private"]
       ELSE [org_type |-> "Organization", sector |-> "Unknown"]

\* lines 105-110: the first city of the list that occurs in the name
LocationInfo(org_name) ==
    LET lower == Lower(org_name)
        hits == {n \in 1..Len(dutch_cities) : Contains(lower, dutch_cities[n])}
    IN IF hits = {} THEN <<>>
       ELSE LET first == CHOOSE n \in hits : \A m \in hits : n <= m
            IN [location_hint |-> Title(dutch_cities[first])]

\* lines 113-117
DepartmentInfo(org_name) ==
    IF Contains(org_name, <<"_">>)
    THEN [parent_organization |-> FirstPart(org_name),
          department |-> AfterFirstPart(org_name)]
    ELSE <<>>

analyze_organization_name(org_name) ==
    OrgTypeInfo(org_name) @@ LocationInfo(org_name) @@ DepartmentInfo(org_name)

\* lookup_organization, lines 63-72: the entry made for a name not in the cache
NewOrgInfo(org_name) ==
    analyze_organization_name(org_name)
    @@ [name |-> org_name,
        uri |-> lookup_generate_organization_uri(org_name),
        type |-> "Organization",
        lookup_attempted |-> TRUE,
        found_details |-> FALSE]

----------------------------------------------------------------------------
(* The inputs of the model *)

P1 == <<"1">>
P2 == <<"2">>
T1 == <<"a">>
T2 == <<"b">>
N1 == <<"f", BS>>
N2 == <<"g">>
O1 == <<"b", "v">>
O2 == <<"B", "V", ".">>
O3 == <<"x">>
BlankCell == <<" ">>
Date1 == Timestamp("2020-01-01")
BadDate == <<"?">>

OrgNames == {O1, O2, O3}

\* the entry process_excel_to_turtle caches for a name (lines 167-171)
ExcelEntry(name) == [name |-> name, type |-> classify_organization(name)]

\* a cache file written by an earlier run of process_excel_to_turtle, and one
\* written by OrganizationLookup.lookup_organization
ExcelWrittenCache == CacheFileOf("ok", PutCache(EmptyMap, O2, ExcelEntry(O2)))
LookupWrittenCache == CacheFileOf("ok", PutCache(EmptyMap, O1, NewOrgInfo(O1)))
MissingCache == CacheFileOf("missing", EmptyMap)
MalformedCache == CacheFileOf("malformed", EmptyMap)
UnreadableCache == CacheFileOf("unreadable", EmptyMap)

\* Sheets are drawn column by column from one of these families of values.
Families ==
    { \* titles and dates of one project
      [Projectnummer |-> {P1}, Onderzoek |-> {NaN, T1, T2},
       Startdatum |-> {NaN, BadDate, Date1}, Einddatum |-> {NaN, Date1},
       Bestandsnaam |-> {NaN}, Instelling |-> {NaN},
       caches |-> {MissingCache}],
      \* projects and their datasets
      [Projectnummer |-> {NaN, P1, P2}, Onderzoek |-> {T1},
       Startdatum |-> {NaN}, Einddatum |-> {NaN},
       Bestandsnaam |-> {NaN, BlankCell, N1, N2}, Instelling |-> {NaN},
       caches |-> {MissingCache}],
      \* a project, its institutions and the cache
      [Projectnummer |-> {NaN, P1}, Onderzoek |-> {NaN},
       Startdatum |-> {NaN}, Einddatum |-> {NaN},
       Bestandsnaam |-> {NaN}, Instelling |-> {NaN, BlankCell, O1, O2, O3},
       caches |-> {MissingCache, MalformedCache, ExcelWrittenCache,
                   LookupWrittenCache}],
      \* every combination of present and absent properties
      [Projectnummer |-> {P1}, Onderzoek |-> {NaN, T1},
       Startdatum |-> {NaN, Date1}, Einddatum |-> {NaN},
       Bestandsnaam |-> {NaN, N1}, Instelling |-> {NaN, O1},
       caches |-> {MissingCache}] }

RowsOf(family) ==
    [Projectnummer : family.Projectnummer, Onderzoek : family.Onderzoek,
     Startdatum : family.Startdatum, Einddatum : family.Einddatum,
     Bestandsnaam : family.Bestandsnaam, Instelling : family.Instelling]

\* the family of the sheets of one row that carry one string in every text cell
LiteralAlphabet == {"a", BS, DQ}

LiteralFamily ==
    [Projectnummer |-> {P1}, Onderzoek |-> {NaN}, Startdatum |-> {NaN},
     Einddatum |-> {NaN}, Bestandsnaam |-> {NaN}, Instelling |-> {NaN},
     caches |-> {MissingCache}]

LiteralRow(text) ==
    [Projectnummer |-> P1, Onderzoek |-> text, Startdatum |-> NaN,
     Einddatum |-> NaN, Bestandsnaam |-> text, Instelling |-> text]

\* every cache file over the names of the model
EntriesOf(name) == {ExcelEntry(name), NewOrgInfo(name)}

CacheContents ==
    UNION { {m \in [names -> UNION {EntriesOf(n) : n \in names}] :
                \A n \in names : m[n] \in EntriesOf(n)} : names \in SUBSET OrgNames }

CacheFiles ==
    {MissingCache, MalformedCache, UnreadableCache}
    \cup {CacheFileOf("ok", m) : m \in CacheContents}

----------------------------------------------------------------------------
(* The state machine *)

\* the columns the scripts read
AllColumns ==
    {"Projectnummer", "Onderzoek", "Startdatum", "Einddatum", "Bestandsnaam",
     "Instelling"}

\* nothing returned yet
NoReturn == [of |-> "none", values |-> <<>>]

Blank1 ==
    /\ i = 0
    /\ loadedFrom = MissingCache
    /\ loadedCache = EmptyMap
    /\ org_cache = EmptyMap
    /\ cache = EmptyMap
    /\ classified = {}
    /\ draws = 0
    /\ projects = <<>>
    /\ datasets = <<>>
    /\ organizations = <<>>
    /\ outFile = NoFile
    /\ prevFile = NoFile
    /\ fixes = 0
    /\ orgFile = NoFile
    /\ integrations = 0
    /\ replacements = 0
    /\ arg = <<>>
    /\ ret = NoReturn
    /\ rerun = "none"
    /\ firstOut = NoFile

\* the sheet has every column the scripts read
Blank0 ==
    /\ Blank1
    /\ columns = AllColumns

\* before pd.read_excel: no row read, nothing computed
Init ==
    /\ pc = "read"
    /\ dom \in Families
    /\ cacheFile \in dom.caches
    /\ df = <<>>
    /\ Blank0

\* pd.read_excel delivers one more row of the sheet
ReadRow ==
    /\ pc = "read"
    /\ Len(df) < MaxRows
    /\ \E row \in RowsOf(dom) : df' = Append(df, row)
    /\ UNCHANGED <<pc, dom, i, cacheFile, loadedFrom, loadedCache, org_cache,
                   cache, classified, draws, projects, datasets, organizations,
                   outFile, prevFile, fixes>>
    /\ UNCHANGED added

\* process_excel_to_turtle, lines 97-124: load the cache, seed, empty dicts
\* StartExcel without random.seed(42) of line 117: the generator goes on
\* from where the run before left it
StartExcel_unseeded ==
    /\ pc = "read" \/ (pc = "again" /\ rerun = "excel_to_turtle")
    /\ LET loaded == load_organization_cache(cacheFile)
       IN /\ pc' = IF loaded.raised THEN "crashed" ELSE "loop"
          /\ loadedCache' = loaded.value
          /\ org_cache' = loaded.value
    /\ loadedFrom' = cacheFile
    /\ draws' = draws
    /\ i' = 0
    /\ projects' = <<>>
    /\ datasets' = <<>>
    /\ organizations' = <<>>
    /\ classified' = {}
    /\ UNCHANGED <<dom, df, cacheFile, cache, outFile, prevFile, fixes>>
    /\ UNCHANGED added

\* process_excel_to_turtle, lines 97-124: load the cache, seed, empty dicts
StartExcel ==
    /\ pc = "read" \/ (pc = "again" /\ rerun = "excel_to_turtle")
    /\ LET loaded == load_organization_cache(cacheFile)
       IN /\ pc' = IF loaded.raised THEN "crashed" ELSE "loop"
          /\ loadedCache' = loaded.value
          /\ org_cache' = loaded.value
    /\ loadedFrom' = cacheFile
    /\ draws' = 0
    /\ i' = 0
    /\ projects' = <<>>
    /\ datasets' = <<>>
    /\ organizations' = <<>>
    /\ classified' = {}
    /\ UNCHANGED <<dom, df, cacheFile, cache, outFile, prevFile, fixes>>
    /\ UNCHANGED added

\* row.get(col, default): the default when the sheet has no such column
Get(row, col, default) == IF col \in columns THEN row[col] ELSE default

\* lines 127-132: row.get of the six columns, with the defaults of the code
RowGet(row) ==
    [Projectnummer |-> Get(row, "Projectnummer", None),
     Onderzoek     |-> Get(row, "Onderzoek", <<>>),
     Startdatum    |-> Get(row, "Startdatum", None),
     Einddatum     |-> Get(row, "Einddatum", None),
     Bestandsnaam  |-> Get(row, "Bestandsnaam", <<>>),
     Instelling    |-> Get(row, "Instelling", <<>>)]

\* process_excel_to_turtle, lines 126-178: one iteration of the loop
ProcessRow ==
    /\ pc = "loop"
    /\ i < Len(df)
    /\ i' = i + 1
    /\ LET row == RowGet(df[i + 1])
           project_num == row.Projectnummer
           dataset_name == row.Bestandsnaam
           institution == row.Instelling
           project_uri == ProjectUri(project_num)
           org_uri == generate_organization_uri(institution)
           has_dataset == notna(project_num) /\ Present(dataset_name)
           has_org == notna(project_num) /\ Present(institution)
           new_dataset == has_dataset /\ dataset_name \notin Keys(datasets)
           new_org == has_org /\ org_uri \notin Keys(organizations)
           cached == institution \in DOMAIN org_cache
           org_info == ResolveOrganization(org_cache, institution)
           projects1 ==
               IF notna(project_num)
               THEN StoreProject(projects, project_uri, row) ELSE projects
           datasets1 ==
               IF has_dataset
               THEN StoreDataset(datasets, draws, dataset_name) ELSE datasets
           projects2 ==
               IF has_dataset
               THEN AddDataset(projects1, project_uri,
                               Lookup(datasets1, dataset_name).uri)
               ELSE projects1
       IN /\ datasets' = datasets1
          /\ draws' = IF new_dataset THEN draws + 1 ELSE draws
          /\ organizations' =
                IF new_org
                THEN StoreOrganization(organizations, org_uri, org_info)
                ELSE organizations
          /\ org_cache' =
                IF new_org /\ ~cached
                THEN PutCache(org_cache, institution, org_info) ELSE org_cache
          /\ classified' =
                IF new_org /\ ~cached
                THEN classified \cup {institution} ELSE classified
          /\ projects' =
                IF has_org THEN AddOrganization(projects2, project_uri, org_uri)
                ELSE projects2
    /\ UNCHANGED <<pc, dom, df, cacheFile, loadedFrom, loadedCache, cache,
                   outFile, prevFile, fixes>>
    /\ UNCHANGED added

\* process_excel_to_turtle, lines 180-256: save the cache, write the file
FinishExcel ==
    /\ pc = "loop"
    /\ i = Len(df)
    /\ cacheFile' = save_organization_cache(org_cache)
    /\ outFile' = FileOf(ExcelTurtle(projects, datasets, organizations))
    /\ pc' = "excel_done"
    /\ UNCHANGED <<dom, df, i, loadedFrom, loadedCache, org_cache, cache,
                   classified, draws, projects, datasets, organizations,
                   prevFile, fixes>>
    /\ UNCHANGED added

\* generate_turtle_rdf, lines 57-61: the columns it looks for, in the order
\* of the checks of lines 63-72
CheckedColumns ==
    <<"Projectnummer", "Startdatum", "Einddatum", "Onderzoek", "Bestandsnaam">>

\* lines 63-72: the checked columns the sheet does not have
MissingColumns(present) ==
    SelectSeq(CheckedColumns, LAMBDA col : col \notin present)

\* generate_turtle_rdf, lines 50-203: a missing column raises ValueError,
\* which line 201 catches; the file is written only at line 195
GenerateTurtleRdf ==
    /\ pc = "read" \/ (pc = "again" /\ rerun = "generate_turtle")
    /\ IF MissingColumns(columns) # <<>>
       THEN /\ ret' = [of |-> "generate_turtle_rdf",
                       values |-> <<"False", "ValueError",
                                    Head(MissingColumns(columns))>>]
            /\ pc' = "failed"
            /\ UNCHANGED outFile
       ELSE /\ ret' = [of |-> "generate_turtle_rdf", values |-> <<"True">>]
            /\ pc' = "generated"
            /\ outFile' = FileOf(GenTurtle(df))
    /\ UNCHANGED <<dom, df, i, cacheFile, loadedFrom, loadedCache, org_cache,
                   cache, classified, draws, projects, datasets, organizations,
                   prevFile, fixes>>
    /\ UNCHANGED <<columns, orgFile, integrations, replacements, arg, rerun,
                   firstOut>>

\* fix_backslashes_in_turtle on the file generate_turtle_rdf wrote
FixBackslashes ==
    /\ pc \in {"generated", "fixed"}
    /\ fixes < MaxFix
    /\ prevFile' = outFile
    /\ outFile' = FileOf(FixContent(outFile.lines))
    /\ fixes' = fixes + 1
    /\ pc' = "fixed"
    /\ UNCHANGED <<dom, df, i, cacheFile, loadedFrom, loadedCache, org_cache,
                   cache, classified, draws, projects, datasets, organizations>>
    /\ UNCHANGED added

Next ==
    \/ ReadRow
    \/ StartExcel
    \/ ProcessRow
    \/ FinishExcel
    \/ GenerateTurtleRdf
    \/ FixBackslashes

Spec == Init /\ [][Next]_vars

----------------------------------------------------------------------------
(* One literal through the serializers and the repair pass *)

LiteralTexts == StringsUpTo(LiteralAlphabet, MaxLen) \ {<<>>}

InitLit ==
    /\ pc = "read"
    /\ dom = LiteralFamily
    /\ cacheFile = MissingCache
    /\ \E text \in LiteralTexts : df = <<LiteralRow(text)>>
    /\ Blank0

NextLit ==
    \/ StartExcel
    \/ ProcessRow
    \/ FinishExcel
    \/ GenerateTurtleRdf
    \/ FixBackslashes

SpecLit == InitLit /\ [][NextLit]_vars

----------------------------------------------------------------------------
(* The cache loaders of the three scripts *)

\* OrganizationLookup.__init__: self.cache = self.load_cache()
LookupInit ==
    /\ pc = "read"
    /\ LET loaded == load_cache(cacheFile)
       IN /\ pc' = IF loaded.raised THEN "crashed" ELSE "lookup"
          /\ loadedCache' = loaded.value
          /\ cache' = loaded.value
    /\ loadedFrom' = cacheFile
    /\ UNCHANGED <<dom, df, i, cacheFile, org_cache, classified, draws,
                   projects, datasets, organizations, outFile, prevFile, fixes>>
    /\ UNCHANGED added

\* save_cache when open() always fails: the file is never written
save_cache_unwritten(file, mapping, written) == file

\* OrganizationLookup.save_cache: the write succeeds, or open() fails and the
\* exception is swallowed
save_cache(file, mapping, written) ==
    IF written THEN CacheFileOf("ok", mapping) ELSE file

\* OrganizationLookup.lookup_organization: org_name is the argument, written
\* tells whether the open() of save_cache succeeds in this call
LookupOrganization ==
    /\ pc = "lookup"
    /\ \E org_name \in OrgNames, written \in BOOLEAN :
          /\ arg' = <<org_name, written>>
          /\ IF org_name \in DOMAIN cache
             THEN /\ ret' = [of |-> "lookup_organization",
                             values |-> <<cache[org_name]>>]
                  /\ UNCHANGED <<cache, cacheFile>>
             ELSE /\ cache' = PutCache(cache, org_name, NewOrgInfo(org_name))
                  /\ cacheFile' = save_cache(cacheFile, cache', written)
                  /\ ret' = [of |-> "lookup_organization",
                             values |-> <<NewOrgInfo(org_name)>>]
    /\ UNCHANGED <<pc, dom, df, i, loadedFrom, loadedCache, org_cache,
                   classified, draws, projects, datasets, organizations,
                   outFile, prevFile, fixes>>
    /\ UNCHANGED <<columns, orgFile, integrations, replacements, rerun,
                   firstOut>>

\* integrate_organizations.load_organization_cache
IntegrateLoad ==
    /\ pc = "read"
    /\ LET loaded == integrate_load_organization_cache(cacheFile)
       IN /\ pc' = IF loaded.raised THEN "crashed" ELSE "integrate"
          /\ loadedCache' = loaded.value
    /\ loadedFrom' = cacheFile
    /\ UNCHANGED <<dom, df, i, cacheFile, org_cache, cache, classified, draws,
                   projects, datasets, organizations, outFile, prevFile, fixes>>
    /\ UNCHANGED added

\* sheets of at most one row with a project and an institution
CacheSheets ==
    {<<>>} \cup {<<[LiteralRow(NaN) EXCEPT !.Instelling = name]>> : name \in OrgNames}

InitCache ==
    /\ pc = "read"
    /\ dom = LiteralFamily
    /\ cacheFile \in CacheFiles
    /\ df \in CacheSheets
    /\ Blank0

NextCache ==
    \/ StartExcel
    \/ ProcessRow
    \/ FinishExcel
    \/ LookupInit
    \/ LookupOrganization
    \/ IntegrateLoad

SpecCache == InitCache /\ [][NextCache]_vars

----------------------------------------------------------------------------
(* organization_lookup.main: the organization profile file *)

MaxPasses == 2

LocatedIn == <<"L", "o", "c", "a", "t", "e", "d", " ", "i", "n", " ">>

\* create_foaf_profile, lines 127-145: the lines after the subject line
ProfileProperties(org_info) ==
    <<Line("rdf:type", NoUri, <<"foaf:Organization">>, ";"),
      Line("foaf:name", NoUri, escape_quotes(org_info.name), ";")>>
    \o (IF "org_type" \in DOMAIN org_info
        THEN <<Line("foaf:focus", NoUri, <<org_info.org_type>>, ";")>> ELSE <<>>)
    \o (IF "location_hint" \in DOMAIN org_info
        THEN <<Line("rdfs:comment", NoUri, LocatedIn \o org_info.location_hint, ";")>>
        ELSE <<>>)
    \o (IF "parent_organization" \in DOMAIN org_info
        THEN <<Line("foaf:member",
                    lookup_generate_organization_uri(org_info.parent_organization),
                    <<>>, ";")>>
        ELSE <<>>)

\* create_foaf_profile: the last ' ;' becomes ' .', an empty line follows
create_foaf_profile(org_info) ==
    LET properties == ProfileProperties(org_info)
    IN <<Subject(org_info.uri)>>
       \o [properties EXCEPT ![Len(properties)].t = "."]
       \o <<Blank>>

\* org_info['uri'] or org_info['name'] raises KeyError on an entry without it
ProfileRaises(org_info) == ~ ({"uri", "name"} \subseteq DOMAIN org_info)

\* lines 183-195 of main: the cache after the lookups of the names, in order
RECURSIVE LookupAll(_, _)
LookupAll(mapping, names) ==
    IF names = <<>> THEN mapping
    ELSE LookupAll(IF Head(names) \in DOMAIN mapping THEN mapping
                   ELSE PutCache(mapping, Head(names), NewOrgInfo(Head(names))),
                   Tail(names))

\* lines 201-209
LookupHeader ==
    <<Prefix("foaf"), Prefix("rdf"), Prefix("rdfs"), Blank,
      Comment("# FOAF Profiles for Organizations"),
      Comment("# Generated automatically with caching system"), Blank>>

\* line 173 and line 183: sorted(df['Instelling'].dropna().unique())
SortedOrganizations(frame) ==
    SortedKeys({frame[n].Instelling :
                   n \in {m \in 1..Len(frame) : notna(frame[m].Instelling)}})

\* lines 183-211: a profile per name; a name whose profile raises is skipped
LookupProfiles(mapping, names) ==
    Flatten([n \in 1..Len(names) |->
                IF ProfileRaises(mapping[names[n]]) THEN <<>>
                ELSE create_foaf_profile(mapping[names[n]])])

\* organization_lookup.main
LookupMain ==
    /\ pc = "generated"
    /\ ~ orgFile.exists
    /\ IF "Instelling" \notin columns
       THEN UNCHANGED <<orgFile, cacheFile, cache, loadedFrom, loadedCache>>
       ELSE \E written \in BOOLEAN :
               LET names == SortedOrganizations(df)
                   loaded == load_cache(cacheFile).value
                   found == LookupAll(loaded, names)
               IN /\ loadedFrom' = cacheFile
                  /\ loadedCache' = loaded
                  /\ cache' = found
                  /\ cacheFile' = IF found = loaded THEN cacheFile
                                  ELSE save_cache(cacheFile, found, written)
                  /\ orgFile' = FileOf(LookupHeader \o LookupProfiles(found, names))
    /\ UNCHANGED <<pc, dom, df, i, org_cache, classified, draws, projects,
                   datasets, organizations, outFile, prevFile, fixes, columns,
                   integrations, replacements, arg, ret, rerun, firstOut>>

----------------------------------------------------------------------------
(* integrate_organizations.integrate_turtle_files *)

\* create_project_organization_mappings: project URI -> set of organization URIs
create_project_organization_mappings(frame) ==
    LET rows == {n \in 1..Len(frame) :
                    /\ notna(Get(frame[n], "Projectnummer", NaN))
                    /\ notna(Get(frame[n], "Instelling", NaN))}
    IN [project_uri \in {ProjectUri(frame[n].Projectnummer) : n \in rows} |->
          {integrate_generate_organization_uri(frame[n].Instelling) :
              n \in {m \in rows : ProjectUri(frame[m].Projectnummer) = project_uri}}]

\* line 77: the line starts with '<https://w3id.org/odissei/ns/kg/cbs/project/'
IsProjectLine(line) == line.k = "subject" /\ line.uri.ns = "project"

\* line 84: line.strip().endswith(' .')
EndsWithPeriod(line) == line.t = "."

\* lines 92-97 without the test for the last organization
MemberLines_unterminated(org_uris) ==
    [n \in 1..Len(org_uris) |-> Line("foaf:member", org_uris[n], <<>>, ";")]

\* lines 92-97
MemberLines(org_uris) ==
    [n \in 1..Len(org_uris) |->
        Line("foaf:member", org_uris[n], <<>>,
             IF n = Len(org_uris) THEN "." ELSE ";")]

\* lines 75-102: the loop over the lines of the main file
RECURSIVE AddRelationships(_, _, _)
AddRelationships(lines, current_project_uri, project_org_map) ==
    IF lines = <<>> THEN <<>>
    ELSE LET line == Head(lines)
         IN IF IsProjectLine(line)
            THEN <<line>> \o AddRelationships(Tail(lines), line.uri, project_org_map)
            ELSE IF EndsWithPeriod(line) /\ current_project_uri # NoUri
            THEN (IF current_project_uri \in DOMAIN project_org_map
                  THEN <<[line EXCEPT !.t = ";"]>>
                       \o MemberLines(sorted(project_org_map[current_project_uri]))
                  ELSE <<line>>)
                 \o AddRelationships(Tail(lines), NoUri, project_org_map)
            ELSE <<line>>
                 \o AddRelationships(Tail(lines), current_project_uri, project_org_map)

\* the lines of a sequence whose positions satisfy a set of positions
Keep(lines, S) == Rows(lines, S)

\* lines 110-115: the first line that is neither a prefix nor empty starts
\* the content
ContentStart(lines) ==
    LET starts == {n \in 1..Len(lines) : lines[n].k \notin {"prefix", "blank"}}
    IN IF starts = {} THEN Len(lines) + 1
       ELSE CHOOSE n \in starts : \A m \in starts : n <= m

PrefixPositions(lines) ==
    {n \in 1..Len(lines) :
        \/ lines[n].k = "prefix"
        \/ n < ContentStart(lines) /\ lines[n].k = "blank"}

\* lines 118-120: list.insert(-1, x) puts x before the last element
WithFoafPrefix(prefix_section) ==
    IF \E n \in 1..Len(prefix_section) :
          prefix_section[n].k = "prefix" /\ prefix_section[n].lit = <<"foaf">>
    THEN prefix_section
    ELSE IF prefix_section = <<>> THEN <<Prefix("foaf")>>
    ELSE SubSeq(prefix_section, 1, Len(prefix_section) - 1)
         \o <<Prefix("foaf"), prefix_section[Len(prefix_section)]>>

\* lines 123-132: the profile file without its leading prefix, empty and
\* comment lines
OrgProfiles(org_lines) ==
    LET kept == {n \in 1..Len(org_lines) :
                    org_lines[n].k \notin {"prefix", "blank", "comment"}}
    IN IF kept = {} THEN <<>>
       ELSE SubSeq(org_lines, CHOOSE n \in kept : \A m \in kept : n <= m,
                   Len(org_lines))

\* lines 70-142: final_content
IntegratedContent(main_lines, org_lines, project_org_map) ==
    LET new_lines == AddRelationships(main_lines, NoUri, project_org_map)
        prefixes == PrefixPositions(new_lines)
    IN WithFoafPrefix(Keep(new_lines, prefixes))
       \o <<Blank, Comment("# Projects with datasets and organization relationships")>>
       \o Keep(new_lines, (1..Len(new_lines)) \ prefixes)
       \o <<Blank, Comment("# Organization FOAF Profiles")>>
       \o OrgProfiles(org_lines)

\* integrate_turtle_files: open() of a file that is not there raises, and
\* nothing is written
IntegrateTurtleFiles ==
    /\ pc \in {"generated", "integrated", "replaced"}
    /\ integrations < MaxPasses
    /\ IF ~ orgFile.exists
       THEN /\ ret' = [of |-> "integrate_turtle_files",
                       values |-> <<"FileNotFoundError">>]
            /\ UNCHANGED <<pc, outFile, prevFile, integrations>>
       ELSE /\ prevFile' = outFile
            /\ outFile' = FileOf(IntegratedContent(
                              outFile.lines, orgFile.lines,
                              create_project_organization_mappings(df)))
            /\ integrations' = integrations + 1
            /\ ret' = [of |-> "integrate_turtle_files", values |-> <<>>]
            /\ pc' = "integrated"
    /\ UNCHANGED <<dom, df, i, cacheFile, loadedFrom, loadedCache, org_cache,
                   cache, classified, draws, projects, datasets, organizations,
                   fixes, columns, orgFile, replacements, arg, rerun, firstOut>>

----------------------------------------------------------------------------
(* replace_foaf_focus.replace_foaf_focus_with_schema_types *)

\* lines 16-22 without the entry of line 20
value_mapping_partial ==
    [value \in {"Educational Institution", "Organization", "Research Institute",
                "Government Agency"} |->
        CASE value = "Educational Institution" -> "schema:EducationalOrganization"
          [] value = "Organization" -> "schema:Organization"
          [] value = "Research Institute" -> "schema:ResearchOrganization"
          [] value = "Government Agency" -> "schema:GovernmentOrganization"]

\* lines 16-22
value_mapping ==
    [value \in {"Educational Institution", "Organization", "Research Institute",
                "Private Company", "Government Agency"} |->
        CASE value = "Educational Institution" -> "schema:EducationalOrganization"
          [] value = "Organization" -> "schema:Organization"
          [] value = "Research Institute" -> "schema:ResearchOrganization"
          [] value = "Private Company" -> "schema:Corporation"
          [] value = "Government Agency" -> "schema:GovernmentOrganization"]

\* replace_focus without the fallback of lines 53-55: an unmapped value is
\* replaced by the None that value_mapping.get returned
replace_focus_unchecked(line) ==
    IF line.lit[1] \in DOMAIN value_mapping
    THEN Line("rdf:type", line.uri, <<value_mapping[line.lit[1]]>>, line.t)
    ELSE Line("rdf:type", line.uri, <<"None">>, line.t)

\* replace_focus, lines 45-55, on a foaf:focus statement
replace_focus(line) ==
    IF line.lit[1] \in DOMAIN value_mapping
    THEN Line("rdf:type", line.uri, <<value_mapping[line.lit[1]]>>, line.t)
    ELSE line

\* lines 59-62: re.sub over the content
ReplacedContent(lines) ==
    [n \in 1..Len(lines) |->
        IF lines[n].k = "foaf:focus" THEN replace_focus(lines[n]) ELSE lines[n]]

\* line 30 and line 81: the foaf:focus statements of a content
FocusMatches(lines) == {n \in 1..Len(lines) : lines[n].k = "foaf:focus"}

\* lines 65-66: the statements 'rdf:type schema:...' of a content
RdfTypeMatches(lines) ==
    {n \in 1..Len(lines) :
        /\ lines[n].k = "rdf:type"
        /\ \E value \in DOMAIN value_mapping : lines[n].lit = <<value_mapping[value]>>}

ReplaceFoafFocus ==
    /\ pc \in {"integrated", "replaced"}
    /\ replacements < MaxPasses
    /\ LET fixed_content == ReplacedContent(outFile.lines)
       IN /\ outFile' = FileOf(fixed_content)
          /\ ret' = [of |-> "replace_foaf_focus_with_schema_types",
                     values |-> <<Cardinality(FocusMatches(outFile.lines)),
                                  Cardinality(RdfTypeMatches(fixed_content)),
                                  Cardinality(FocusMatches(fixed_content))>>]
    /\ prevFile' = outFile
    /\ replacements' = replacements + 1
    /\ pc' = "replaced"
    /\ UNCHANGED <<dom, df, i, cacheFile, loadedFrom, loadedCache, org_cache,
                   cache, classified, draws, projects, datasets, organizations,
                   fixes, columns, orgFile, integrations, arg, rerun, firstOut>>

----------------------------------------------------------------------------
(* The passes over the file generate_turtle_rdf wrote *)

\* an entry of the cache file with a category the vocabulary table lacks
ForeignEntry(name) ==
    [NewOrgInfo(name) EXCEPT !.org_type = "Foundation"]

ForeignCache == CacheFileOf("ok", PutCache(EmptyMap, O3, ForeignEntry(O3)))

PostFamily ==
    [Projectnummer |-> {P1, P2}, Onderzoek |-> {T1},
     Startdatum |-> {NaN}, Einddatum |-> {NaN},
     Bestandsnaam |-> {NaN, N2}, Instelling |-> {NaN, O1, O3},
     caches |-> {MissingCache, ForeignCache}]

InitPost ==
    /\ pc = "read"
    /\ dom = PostFamily
    /\ cacheFile \in dom.caches
    /\ df = <<>>
    /\ Blank0

NextPost ==
    \/ ReadRow
    \/ GenerateTurtleRdf
    \/ LookupMain
    \/ IntegrateTurtleFiles
    \/ ReplaceFoafFocus

SpecPost == InitPost /\ [][NextPost]_vars

----------------------------------------------------------------------------
(* Two runs of a generator over one sheet *)

\* the script that wrote the Turtle file is started again: the sheet is the
\* same and the cache file is put back as the first run found it
RunAgain ==
    /\ pc \in {"excel_done", "generated"}
    /\ rerun = "none"
    /\ rerun' = IF pc = "excel_done" THEN "excel_to_turtle" ELSE "generate_turtle"
    /\ firstOut' = outFile
    /\ cacheFile' = IF pc = "excel_done" THEN loadedFrom ELSE cacheFile
    /\ pc' = "again"
    /\ UNCHANGED <<dom, df, i, loadedFrom, loadedCache, org_cache, cache,
                   classified, draws, projects, datasets, organizations,
                   outFile, prevFile, fixes, columns, orgFile, integrations,
                   replacements,
                   arg, ret>>

NextRuns ==
    \/ ReadRow
    \/ StartExcel
    \/ ProcessRow
    \/ FinishExcel
    \/ GenerateTurtleRdf
    \/ RunAgain

SpecRuns == Init /\ [][NextRuns]_vars

----------------------------------------------------------------------------
(* The generators on a sheet that lacks a column *)

\* sheets of one project with every combination of present and absent cells
ColumnsFamily ==
    [Projectnummer |-> {P1}, Onderzoek |-> {NaN, T1},
     Startdatum |-> {NaN, Date1}, Einddatum |-> {NaN, Date1},
     Bestandsnaam |-> {NaN, N1}, Instelling |-> {NaN, O1},
     caches |-> {MissingCache}]

\* the sheet has every column, or every column but one
InitColumns ==
    /\ pc = "read"
    /\ dom = ColumnsFamily
    /\ cacheFile \in dom.caches
    /\ df = <<>>
    /\ Blank1
    /\ columns \in {AllColumns} \cup {AllColumns \ {col} : col \in AllColumns}

NextColumns ==
    \/ ReadRow
    \/ StartExcel
    \/ ProcessRow
    \/ FinishExcel
    \/ GenerateTurtleRdf

SpecColumns == InitColumns /\ [][NextColumns]_vars

----------------------------------------------------------------------------
(* The generators on sheets with dates that do not parse *)

\* sheets of one project: a title or none, dates that parse, do not parse or
\* are missing, a dataset or none
DatesFamily ==
    [Projectnummer |-> {P1}, Onderzoek |-> {NaN, T1},
     Startdatum |-> {NaN, BadDate, Date1}, Einddatum |-> {NaN, BadDate, Date1},
     Bestandsnaam |-> {NaN, N1}, Instelling |-> {NaN},
     caches |-> {MissingCache}]

InitDates ==
    /\ pc = "read"
    /\ dom = DatesFamily
    /\ cacheFile \in dom.caches
    /\ df = <<>>
    /\ Blank0

SpecDates == InitDates /\ [][Next]_vars

----------------------------------------------------------------------------
(* The passes over profiles of organizations of every type *)

\* names that analyze_organization_name gives each of its types, one of them
\* with a city and a department
TypedNames ==
    { <<"c","o","l","l","e","g","e">>, <<"r","i","j","k","s">>,
      <<"b","u","r","e","a","u">>, O1, O2, O3,
      <<"d","e","l","f","t","_","b","v">> }

\* sheets of one project and the cache files the scripts write
TypesFamily ==
    [Projectnummer |-> {P1}, Onderzoek |-> {T1},
     Startdatum |-> {NaN}, Einddatum |-> {NaN},
     Bestandsnaam |-> {NaN}, Instelling |-> {NaN} \cup TypedNames,
     caches |-> {MissingCache, ExcelWrittenCache, LookupWrittenCache}]

InitTypes ==
    /\ pc = "read"
    /\ dom = TypesFamily
    /\ cacheFile \in dom.caches
    /\ df = <<>>
    /\ Blank0

SpecTypes == InitTypes /\ [][NextPost]_vars

----------------------------------------------------------------------------
(* Calls of classify_organization and of the copies of
   generate_organization_uri *)

MaxParts == 2
MaxCalls == 2

\* organization names: up to MaxParts parts, one after the other
NameParts ==
    {<<"U", "n", "i", "v", "e", "r", "s", "i", "t", "y">>,
     <<"m", "i", "n", "i", "s", "t", "e", "r", "i", "e">>,
     <<"R", "e", "s", "e", "a", "r", "c", "h">>,
     <<"B", "V">>,
     <<"B", ".", "V", ".">>,
     <<"x">>,
     <<" ">>,
     <<"a", "b", "c", "d", "e", "f", "g", "h", "i", "j", "k", "l", "m", "n", "o", "p", "q", "r", "s", "t", "u", "v", "w", "x", "y", "z">>}

RECURSIVE NamesOfParts(_)
NamesOfParts(n) ==
    IF n = 0 THEN {<<>>}
    ELSE LET shorter == NamesOfParts(n - 1)
         IN shorter \cup {s \o part : s \in shorter, part \in NameParts}

Names == NamesOfParts(MaxParts)

InitNames ==
    /\ pc = "names"
    /\ dom = LiteralFamily
    /\ cacheFile = MissingCache
    /\ df = <<>>
    /\ Blank0

\* the name of a call: any name at the first call, the same name afterwards
NameOfCall(function) ==
    IF ret = NoReturn THEN Names
    ELSE IF ret.of = function THEN {arg} ELSE {}

\* classify_organization(org_name), called up to MaxCalls times with a name
ClassifyOrganization ==
    /\ pc = "names"
    /\ \E org_name \in NameOfCall("classify_organization") :
          /\ Len(ret.values) < MaxCalls
          /\ arg' = org_name
          /\ ret' = [of |-> "classify_organization",
                     values |-> Append(ret.values, classify_organization(org_name))]
    /\ UNCHANGED <<pc, dom, df, i, cacheFile, loadedFrom, loadedCache, org_cache,
                   cache, classified, draws, projects, datasets, organizations,
                   outFile, prevFile, fixes, columns, orgFile, integrations,
                   replacements,
                   rerun, firstOut>>

\* one copy of generate_organization_uri called with a name: the URIs the
\* copies returned for the name are kept by copy
CallUriCopy(copy, uri) ==
    /\ arg' = uri.name
    /\ ret' = [of |-> "generate_organization_uri",
               values |-> [c \in DOMAIN ret.values \cup {copy} |->
                              IF c = copy THEN uri.value ELSE ret.values[c]]]
    /\ UNCHANGED <<pc, dom, df, i, cacheFile, loadedFrom, loadedCache, org_cache,
                   cache, classified, draws, projects, datasets, organizations,
                   outFile, prevFile, fixes, columns, orgFile, integrations,
                   replacements,
                   rerun, firstOut>>

\* excel_to_turtle.generate_organization_uri(org_name)
GenerateOrganizationUri ==
    /\ pc = "names"
    /\ \E org_name \in NameOfCall("generate_organization_uri") :
          CallUriCopy("excel_to_turtle",
                      [name |-> org_name, value |-> generate_organization_uri(org_name)])

\* integrate_organizations.generate_organization_uri(org_name)
IntegrateGenerateOrganizationUri ==
    /\ pc = "names"
    /\ \E org_name \in NameOfCall("generate_organization_uri") :
          CallUriCopy("integrate_organizations",
                      [name |-> org_name,
                       value |-> integrate_generate_organization_uri(org_name)])

\* OrganizationLookup.generate_organization_uri(org_name)
LookupGenerateOrganizationUri ==
    /\ pc = "names"
    /\ \E org_name \in NameOfCall("generate_organization_uri") :
          CallUriCopy("OrganizationLookup",
                      [name |-> org_name,
                       value |-> lookup_generate_organization_uri(org_name)])

NextNames ==
    \/ ClassifyOrganization
    \/ GenerateOrganizationUri
    \/ IntegrateGenerateOrganizationUri
    \/ LookupGenerateOrganizationUri

SpecNames == InitNames /\ [][NextNames]_vars

----------------------------------------------------------------------------
(* The two classifications of a name *)

\* one of the two scripts classifies a name: the results for the name are
\* kept by script
CallClassifier(script, result) ==
    /\ arg' = result.name
    /\ ret' = [of |-> "classification",
               values |-> [c \in DOMAIN ret.values \cup {script} |->
                              IF c = script THEN result.value ELSE ret.values[c]]]
    /\ UNCHANGED <<pc, dom, df, i, cacheFile, loadedFrom, loadedCache, org_cache,
                   cache, classified, draws, projects, datasets, organizations,
                   outFile, prevFile, fixes, columns, orgFile, integrations,
                   replacements, rerun, firstOut>>

\* excel_to_turtle.classify_organization(org_name): the rdf:type of the
\* organization block
ClassifyByExcel ==
    /\ pc = "names"
    /\ \E org_name \in NameOfCall("classification") :
          /\ "excel_to_turtle" \notin DOMAIN ret.values
          /\ CallClassifier("excel_to_turtle",
                            [name |-> org_name,
                             value |-> classify_organization(org_name)])

\* OrganizationLookup.analyze_organization_name(org_name): the org_type that
\* create_foaf_profile writes as foaf:focus
ClassifyByLookup ==
    /\ pc = "names"
    /\ \E org_name \in NameOfCall("classification") :
          /\ "OrganizationLookup" \notin DOMAIN ret.values
          /\ CallClassifier("OrganizationLookup",
                            [name |-> org_name,
                             value |-> analyze_organization_name(org_name).org_type])

NextClassify ==
    \/ ClassifyByExcel
    \/ ClassifyByLookup

SpecClassify == InitNames /\ [][NextClassify]_vars

----------------------------------------------------------------------------
(* Reading a written Turtle file back *)

ExcelWrote == pc = "excel_done"
GenWrote == pc = "generated"
Written == ExcelWrote \/ GenWrote

SubjectIndexes(lines) == {n \in 1..Len(lines) : lines[n].k = "subject"}

\* the predicate-object lines that follow the subject line at position s
BlockLines(lines, s) ==
    LET ends == {e \in s..Len(lines) :
                    \A n \in (s + 1)..e : IsPredicateLine(lines[n])}
        last == CHOOSE e \in ends : \A f \in ends : f <= e
    IN SubSeq(lines, s + 1, last)

\* the blocks of the file whose subject is uri
BlocksOf(lines, uri) ==
    {s \in SubjectIndexes(lines) : lines[s].uri = uri}

\* the predicate-object lines of all blocks of uri
LinesOf(lines, uri) ==
    LET at == BlocksOf(lines, uri)
    IN IF at = {} THEN <<>>
       ELSE BlockLines(lines, CHOOSE s \in at : \A r \in at : s <= r)

\* the lines of kind k among a block's lines, in order
RECURSIVE OfKind(_, _)
OfKind(block, k) ==
    IF block = <<>> THEN <<>>
    ELSE (IF Head(block).k = k THEN <<Head(block)>> ELSE <<>>)
         \o OfKind(Tail(block), k)

\* the rows of the sheet with a project identifier, and their projects
ValidRows == {n \in 1..Len(df) : notna(df[n].Projectnummer)}
ProjectNumbers == {df[n].Projectnummer : n \in ValidRows}
RowsOfProject(p) == {n \in ValidRows : df[n].Projectnummer = p}
FirstRowOf(p) == df[CHOOSE n \in RowsOfProject(p) : \A m \in RowsOfProject(p) : n <= m]

\* the dataset names a script takes from a row: process_excel_to_turtle drops
\* blank names, generate_turtle_rdf only missing ones
TakesName(name) == IF ExcelWrote THEN Present(name) ELSE notna(name)

DatasetNamesOf(p) ==
    {df[n].Bestandsnaam : n \in {m \in RowsOfProject(p) : TakesName(df[m].Bestandsnaam)}}

InstitutionsOf(p) ==
    {df[n].Instelling : n \in {m \in RowsOfProject(p) : Present(df[m].Instelling)}}

----------------------------------------------------------------------------
(* C1 *)

WellTerminated(block) ==
    \A n \in 1..Len(block) : block[n].t = IF n = Len(block) THEN "." ELSE ";"

\* C1: in the file a generator wrote, every predicate-object line of every
\* subject block ends with ';', except the last line of the block, which
\* ends with '.'.
C1_BlocksTerminated ==
    Written =>
        \A s \in SubjectIndexes(outFile.lines) :
            WellTerminated(BlockLines(outFile.lines, s))

----------------------------------------------------------------------------
(* C2 *)

\* the dataset names and institution names carried by a row with a project
NamesOfValidRows ==
    {df[n].Bestandsnaam : n \in ValidRows} \cup {df[n].Instelling : n \in ValidRows}

\* the name is the text of a dc:alternative or foaf:name literal of the file
NameInFile(name) ==
    \E n \in 1..Len(outFile.lines) :
        /\ outFile.lines[n].k \in {"dc:alternative", "foaf:name"}
        /\ outFile.lines[n].lit \in {escape_turtle_string(name), escape_quotes(name)}

\* C2: a row without a project identifier contributes nothing to the written
\* file: its dataset name and its institution name occur nowhere in the file,
\* unless a row with an identifier carries them too.
C2_BlankRowContributesNothing ==
    Written =>
        \A n \in (1..Len(df)) \ ValidRows :
            \A name \in {df[n].Bestandsnaam, df[n].Instelling} :
                (notna(name) /\ name \notin NamesOfValidRows) => ~NameInFile(name)

----------------------------------------------------------------------------
(* C3 *)

RequiresOf(p) == OfKind(LinesOf(outFile.lines, ProjectUri(p)), "dc:requires")

\* C3: the dc:requires lines of a project block are one line per distinct
\* dataset name of the project, without duplicates, in ascending order of
\* dataset URI.
C3_RequiresSortedDistinct ==
    Written =>
        \A p \in ProjectNumbers :
            LET lines == RequiresOf(p)
            IN /\ \A a, b \in 1..Len(lines) :
                     a < b => UriLess(lines[a].uri, lines[b].uri)
               /\ BlocksOf(outFile.lines, ProjectUri(p)) # {}
                     => Len(lines) = Cardinality(DatasetNamesOf(p))

----------------------------------------------------------------------------
(* C4 *)

\* C4: applying the backslash repair pass twice to a file yields the file
\* that applying it once yields.
C4_RepairIdempotent == fixes = 2 => outFile = prevFile

----------------------------------------------------------------------------
(* C5 *)

\* the escape rule: each backslash doubled, each double quote preceded by a
\* backslash, every other character kept
RECURSIVE EscapeRule(_)
EscapeRule(text) ==
    IF text = <<>> THEN <<>>
    ELSE (IF Head(text) \in {BS, DQ} THEN <<BS, Head(text)>> ELSE <<Head(text)>>)
         \o EscapeRule(Tail(text))

\* the escape rule reversed; a bare double quote or a backslash that escapes
\* nothing has no source character
RECURSIVE Unescape(_)
Unescape(lit) ==
    IF lit = <<>> THEN <<>>
    ELSE IF Head(lit) = BS
         THEN IF Len(lit) >= 2 /\ lit[2] \in {BS, DQ}
              THEN <<lit[2]>> \o Unescape(Tail(Tail(lit)))
              ELSE <<"invalid">>
    ELSE IF Head(lit) = DQ THEN <<"invalid">>
    ELSE <<Head(lit)>> \o Unescape(Tail(lit))

LiteralKinds == {"dc:title", "dc:alternative", "foaf:name"}

\* the text the single row of the sheet carries in its text cells
SourceText == df[1].Bestandsnaam

\* C5: every string literal the serializer embeds is the source string with
\* each backslash doubled and each double quote preceded by a backslash, and
\* reversing the escape rule on it gives the source string back.
C5_LiteralsEscaped ==
    Written =>
        \A n \in 1..Len(outFile.lines) :
            outFile.lines[n].k \in LiteralKinds =>
                /\ outFile.lines[n].lit = EscapeRule(SourceText)
                /\ Unescape(outFile.lines[n].lit) = SourceText

----------------------------------------------------------------------------
(* C6 *)

Literals(lines) == [n \in 1..Len(lines) |-> lines[n].lit]

TitleOf(row) ==
    IF notna(row.Onderzoek) /\ row.Onderzoek # <<>>
    THEN <<EscapeRule(row.Onderzoek)>> ELSE <<>>

DateOf(cell) == IF format_date(cell) # None THEN <<format_date(cell)>> ELSE <<>>

\* C6: the block of a project carries the title and the dates of the first
\* row of the project, and nothing of them from a later row, also when the
\* first row has none.
C6_FirstRowWins ==
    Written =>
        \A p \in ProjectNumbers :
            LET block == LinesOf(outFile.lines, ProjectUri(p))
                first == FirstRowOf(p)
            IN /\ Literals(OfKind(block, "dc:title")) = TitleOf(first)
               /\ Literals(OfKind(block, "schema:startDate")) = DateOf(first.Startdatum)
               /\ Literals(OfKind(block, "schema:endDate")) = DateOf(first.Einddatum)

----------------------------------------------------------------------------
(* C7 *)

\* the dataset names the script that wrote the file took from the sheet
AllDatasetNames ==
    IF ExcelWrote THEN UNION {DatasetNamesOf(p) : p \in ProjectNumbers}
    ELSE {df[n].Bestandsnaam : n \in {m \in 1..Len(df) : notna(df[m].Bestandsnaam)}}

AllInstitutions == UNION {InstitutionsOf(p) : p \in ProjectNumbers}

\* the literal the script that wrote the file makes of a name
LiteralOf(name) ==
    IF ExcelWrote THEN escape_turtle_string(name) ELSE escape_quotes(name)

\* the subjects of the blocks that name the dataset in a dc:alternative line
DatasetBlocks(name) ==
    {s \in SubjectIndexes(outFile.lines) :
        \E l \in Range(BlockLines(outFile.lines, s)) :
            l.k = "dc:alternative" /\ l.lit = LiteralOf(name)}

UrisOn(lines) == {lines[n].uri : n \in 1..Len(lines)}

HasBlock(p) == BlocksOf(outFile.lines, ProjectUri(p)) # {}

OrganizationsOf(p) ==
    OfKind(LinesOf(outFile.lines, ProjectUri(p)), "schema:parentOrganization")

C7_OneBlockPerName ==
    Written =>
        /\ \A name \in AllDatasetNames :
              /\ Cardinality(DatasetBlocks(name)) = 1
              /\ \A s \in DatasetBlocks(name), p \in ProjectNumbers :
                    (HasBlock(p) /\ name \in DatasetNamesOf(p))
                       => outFile.lines[s].uri \in UrisOn(RequiresOf(p))
        /\ \A p \in ProjectNumbers :
              HasBlock(p) =>
                 Cardinality(UrisOn(RequiresOf(p))) = Cardinality(DatasetNamesOf(p))
        /\ ExcelWrote =>
              \A name \in AllInstitutions :
                 /\ Cardinality(BlocksOf(outFile.lines,
                                         generate_organization_uri(name))) = 1
                 /\ \A p \in ProjectNumbers :
                       name \in InstitutionsOf(p)
                          => generate_organization_uri(name)
                                \in UrisOn(OrganizationsOf(p))

\* a step of the run keeps every URI the run has assigned
C7_KeepsUris ==
    (pc = "loop" /\ pc' = "loop") =>
        /\ \A name \in Keys(datasets) :
              /\ name \in Keys(datasets')
              /\ Lookup(datasets', name).uri = Lookup(datasets, name).uri
        /\ \A n \in 1..Len(projects) :
              /\ n <= Len(projects')
              /\ projects[n].datasets \subseteq projects'[n].datasets
              /\ projects[n].organizations \subseteq projects'[n].organizations

\* C7: within a run every dataset name and every organization name has one
\* URI: the file holds exactly one block for the name, every project block
\* that refers to the name uses the URI of that block, and no step of the
\* run changes a URI it has assigned.
C7_OneUriPerName == [](C7_OneBlockPerName) /\ [][C7_KeepsUris]_vars

\* C7 witness: the file is written and two projects refer to one dataset
C7_Witness ==
    /\ ExcelWrote
    /\ \E name \in AllDatasetNames :
          /\ name \in DatasetNamesOf(P1) \cap DatasetNamesOf(P2)
          /\ \E u \in UrisOn(RequiresOf(P1)) : u \in UrisOn(RequiresOf(P2))

----------------------------------------------------------------------------
(* C8 *)

\* C8: a name of the loaded cache is resolved from its entry, without the
\* classifier; the cache the run saves holds the loaded entries unchanged and
\* one entry for every institution of the run that the loaded cache lacked.
C8_CacheLifecycle ==
    ExcelWrote =>
        /\ \A name \in AllInstitutions \cap DOMAIN loadedCache :
              name \notin classified
        /\ \A name \in DOMAIN loadedCache :
              /\ name \in DOMAIN cacheFile.data
              /\ cacheFile.data[name] = loadedCache[name]
        /\ DOMAIN cacheFile.data = DOMAIN loadedCache \cup AllInstitutions

----------------------------------------------------------------------------
(* C10 *)

Categories ==
    {"schema:EducationalOrganization", "schema:GovernmentOrganization",
     "schema:ResearchOrganization", "schema:Corporation", "schema:Organization"}

\* C10: every rdf:type line process_excel_to_turtle writes names one of the
\* five categories.
C10_TypeIsCategory ==
    ExcelWrote =>
        \A n \in 1..Len(outFile.lines) :
            outFile.lines[n].k = "rdf:type" => outFile.lines[n].lit[1] \in Categories

----------------------------------------------------------------------------
(* C9 *)

LoadFailures == {"missing", "unreadable", "malformed"}

\* C9: no loader raises; a missing, unreadable or malformed cache file loads
\* as the empty mapping, a readable one as its content, and
\* process_excel_to_turtle then runs its loop as with an empty cache: it
\* classifies every institution it stores and saves exactly those.
C9_LoadNeverFails ==
    /\ pc # "crashed"
    /\ pc # "read" =>
          /\ loadedFrom.status \in LoadFailures => loadedCache = EmptyMap
          /\ loadedFrom.status = "ok" => loadedCache = loadedFrom.data
    /\ (pc = "loop" /\ loadedFrom.status \in LoadFailures) =>
          DOMAIN org_cache = classified
    /\ (pc = "excel_done" /\ loadedFrom.status \in LoadFailures) =>
          /\ cacheFile.status = "ok"
          /\ DOMAIN cacheFile.data = classified
          /\ AllInstitutions = classified
    /\ pc = "lookup" => DOMAIN loadedCache \subseteq DOMAIN cache

\* C9 witness: process_excel_to_turtle has finished a run over a sheet with
\* an institution after loading a cache file that could not be parsed or read
C9_Witness ==
    /\ pc = "excel_done"
    /\ loadedFrom.status \in {"unreadable", "malformed"}
    /\ AllInstitutions # {}

----------------------------------------------------------------------------
(* C11 *)

Classified == ret.of = "classify_organization"

\* C11: every call of classify_organization returns one of the five
\* categories, and the calls with one name return one category.
C11_ClassifierTotal ==
    Classified =>
        \A n \in 1..Len(ret.values) :
            /\ ret.values[n] \in Categories
            /\ ret.values[n] = ret.values[1]

\* C11 witness: classify_organization was called twice with a name
C11_Witness == Classified /\ Len(ret.values) = 2

----------------------------------------------------------------------------
(* C12 *)

\* word occurs in name when case is ignored
OccursIgnoringCase(word, name) ==
    \E n \in 0..(Len(name) - Len(word)) :
        \A m \in 1..Len(word) : LowerChar(name[n + m]) = LowerChar(word[m])

Priority ==
    << [words |-> EducationWords, category |-> "schema:EducationalOrganization"],
       [words |-> GovernmentWords, category |-> "schema:GovernmentOrganization"],
       [words |-> ResearchWords, category |-> "schema:ResearchOrganization"],
       [words |-> CorporateWords, category |-> "schema:Corporation"] >>

\* the lists with a keyword that occurs in the name
MatchingLists(name) ==
    {k \in 1..Len(Priority) :
        \E word \in Range(Priority[k].words) : OccursIgnoringCase(word, name)}

ExpectedCategory(name) ==
    IF MatchingLists(name) = {} THEN "schema:Organization"
    ELSE Priority[CHOOSE k \in MatchingLists(name) :
                     \A l \in MatchingLists(name) : k <= l].category

\* C12: classify_organization returns the category of the first of the lists
\* education, government, research, corporate that has a keyword occurring in
\* the name when case is ignored, and the generic category when none has.
C12_FirstListWins ==
    Classified =>
        \A n \in 1..Len(ret.values) : ret.values[n] = ExpectedCategory(arg)

\* C12 witness: a name with an upper-case keyword of the education list and a
\* keyword of a later list was classified
C12_Witness ==
    /\ Classified
    /\ 1 \in MatchingLists(arg)
    /\ Cardinality(MatchingLists(arg)) >= 2
    /\ ~ AnyWordIn(EducationWords, arg)

----------------------------------------------------------------------------
(* C13 *)

\* the name without the characters that are no letter, digit or space
KeptChars(name) ==
    SelectSeq(name, LAMBDA c : IsUpper(c) \/ IsLowerCh(c) \/ IsDigit(c) \/ c = " ")

\* lower case, every run of spaces between two other characters one underscore
Underscored(s) ==
    FlattenTo([n \in 1..Len(s) |->
                  IF s[n] # " " THEN <<LowerChar(s[n])>>
                  ELSE IF n > 1 /\ s[n - 1] # " "
                          /\ \E m \in (n + 1)..Len(s) : s[m] # " "
                       THEN <<"_">>
                       ELSE <<>>],
              Len(s))

CleanedForm(name) ==
    LET whole == Underscored(KeptChars(name))
    IN SubSeq(whole, 1, IF Len(whole) < 50 THEN Len(whole) ELSE 50)

UriCalled == ret.of = "generate_organization_uri"

\* C13: each of the three copies of generate_organization_uri returns for a
\* name the URI of its cleaned form, so names with equal cleaned forms get
\* equal URIs and the copies agree on every name.
C13_UriOfCleanedForm ==
    UriCalled =>
        \A copy \in DOMAIN ret.values :
            ret.values[copy] = OrganizationUri(CleanedForm(arg))

\* C13 witness: the three copies were called with a name that is longer than
\* 50 characters after cleaning, and with a name that differs from another
\* name with the same cleaned form
C13_Witness ==
    /\ UriCalled
    /\ DOMAIN ret.values =
          {"excel_to_turtle", "integrate_organizations", "OrganizationLookup"}
    /\ \/ Len(Underscored(KeptChars(arg))) > 50
       \/ \E other \in Names : other # arg /\ CleanedForm(other) = CleanedForm(arg)

----------------------------------------------------------------------------
(* C14 *)

\* the rows whose dataset name the script that wrote the file registers
TakingRows ==
    {n \in (IF ExcelWrote THEN ValidRows ELSE 1..Len(df)) :
        TakesName(df[n].Bestandsnaam)}

FirstTaken(name) ==
    CHOOSE n \in TakingRows :
        /\ df[n].Bestandsnaam = name
        /\ \A m \in TakingRows : df[m].Bestandsnaam = name => n <= m

\* the position of a name among the distinct names in first-seen order
PositionOf(name) ==
    1 + Cardinality({df[m].Bestandsnaam : m \in {k \in TakingRows : k < FirstTaken(name)}})

\* the ids the seeded generator of the script returns, in order
SeededIds == IF ExcelWrote THEN RandomIdsChoices ELSE RandomIdsChoice

\* C14: a second run over the same rows (and the same cache file) writes the
\* file the first run wrote, and in every run the block of a dataset name
\* has the URI of the id the seeded generator returns at the position of the
\* name in first-seen order among the distinct names the run registers.
C14_RunsReproducible ==
    Written =>
        /\ rerun # "none" => outFile = firstOut
        /\ \A n \in TakingRows :
              \A s \in DatasetBlocks(df[n].Bestandsnaam) :
                 outFile.lines[s].uri = DatasetUri(SeededIds[PositionOf(df[n].Bestandsnaam)])

\* C14 witness: process_excel_to_turtle has run twice over a sheet with two
\* dataset names
C14_Witness ==
    /\ ExcelWrote
    /\ rerun = "excel_to_turtle"
    /\ Cardinality({df[n].Bestandsnaam : n \in TakingRows}) = 2

----------------------------------------------------------------------------
(* C15 *)

Integrated == pc = "integrated"

\* the organization URIs the sheet gives a project
OrganizationsInSheet(p) ==
    {OrganizationUri(CleanedForm(df[n].Instelling)) :
        n \in {m \in RowsOfProject(p) : notna(df[m].Instelling)}}

\* the block after the pass is the block before it with the closing line
\* ended by ';' and one foaf:member line per organization after it
ExtendedBy(before, after, orgs) ==
    LET members == SubSeq(after, Len(before) + 1, Len(after))
    IN /\ Len(after) = Len(before) + Cardinality(orgs)
       /\ \A n \in 1..Len(before) :
             after[n] = IF n = Len(before) THEN [before[n] EXCEPT !.t = ";"]
                        ELSE before[n]
       /\ \A n \in 1..Len(members) : members[n].k = "foaf:member"
       /\ UrisOn(members) = orgs
       /\ \A n \in 1..(Len(members) - 1) : UriLess(members[n].uri, members[n + 1].uri)
       /\ \A n \in 1..Len(after) :
             after[n].t = IF n = Len(after) THEN "." ELSE ";"

\* C15: integrate_turtle_files extends the block of every project that has
\* organizations in the sheet by one foaf:member line per organization URI,
\* sorted, the former closing line and every added line but the last ending
\* with ';' and the last with '.', and leaves the other project blocks alone.
C15_MembersAppended ==
    Integrated =>
        \A p \in ProjectNumbers :
            LET before == LinesOf(prevFile.lines, ProjectUri(p))
                after == LinesOf(outFile.lines, ProjectUri(p))
            IN IF before # <<>> /\ OrganizationsInSheet(p) # {}
               THEN ExtendedBy(before, after, OrganizationsInSheet(p))
               ELSE after = before

\* C15 witness: the pass ran once over a file with a project of two
\* organizations
C15_Witness ==
    /\ Integrated
    /\ integrations = 1
    /\ \E p \in ProjectNumbers :
          /\ Cardinality(OrganizationsInSheet(p)) = 2
          /\ LinesOf(prevFile.lines, ProjectUri(p)) # <<>>

----------------------------------------------------------------------------
(* C16 *)

\* C16: a second run of integrate_turtle_files over the file the first run
\* wrote, the sheet and the profile file unchanged, leaves the file as it
\* was.
C16_IntegrationRepeatable ==
    (Integrated /\ integrations = 2 /\ replacements = 0) => outFile = prevFile

----------------------------------------------------------------------------
(* C17 *)

Replaced == pc = "replaced"

IsMappedFocus(line) == line.k = "foaf:focus" /\ line.lit[1] \in DOMAIN value_mapping

UnmappedFocus(lines) ==
    {n \in 1..Len(lines) : lines[n].k = "foaf:focus" /\ ~ IsMappedFocus(lines[n])}

\* C17: the pass turns every foaf:focus statement whose value is a key of the
\* table into 'rdf:type <class of the value>', leaves every other line of the
\* file as it was, and returns the number of foaf:focus statements with a
\* value that is no key as the remaining count.
C17_FocusRemapped ==
    Replaced =>
        /\ Len(outFile.lines) = Len(prevFile.lines)
        /\ \A n \in 1..Len(prevFile.lines) :
              LET before == prevFile.lines[n]
                  after == outFile.lines[n]
              IN IF IsMappedFocus(before)
                 THEN after = [before EXCEPT !.k = "rdf:type",
                                             !.lit = <<value_mapping[before.lit[1]]>>]
                 ELSE after = before
        /\ ret.values[3] = Cardinality(UnmappedFocus(prevFile.lines))

\* C17 witness: the pass ran over a file with a foaf:focus value of the table
\* and one that the table lacks
C17_Witness ==
    /\ Replaced
    /\ \E n \in 1..Len(prevFile.lines) : IsMappedFocus(prevFile.lines[n])
    /\ UnmappedFocus(prevFile.lines) # {}

----------------------------------------------------------------------------
(* C18 *)

\* a generator has returned
GeneratorReturned == pc \in {"excel_done", "generated", "failed"}

\* the columns the scripts read that the sheet does not have
AbsentColumns == AllColumns \ columns

\* the run ended with an error that names column col
AbortedNaming(col) ==
    /\ Len(ret.values) = 3
    /\ ret.values[2] = "ValueError"
    /\ ret.values[3] = col

\* C18: a generator run on a sheet that lacks one of the columns project
\* identifier, start date, end date, title, dataset name or institution ends
\* with an error that names a column the sheet lacks, and writes no output
\* file.
C18_MissingColumnAborts ==
    (GeneratorReturned /\ AbsentColumns # {}) =>
        /\ ~ outFile.exists
        /\ \E col \in AbsentColumns : AbortedNaming(col)

----------------------------------------------------------------------------
(* C19 *)

\* the date cells of the first row of project p that hold a value no parser
\* accepts
Unparseable(x) == notna(x) /\ ~ IsTimestamp(x) /\ x \notin ParsableDates

HasUnparseableDate(p) ==
    Unparseable(FirstRowOf(p).Startdatum) \/ Unparseable(FirstRowOf(p).Einddatum)

\* the kinds of the lines of a block
KindsOf(block) == {block[n].k : n \in 1..Len(block)}

\* the properties the first rows of project p give it besides the date that
\* does not parse
RemainingKinds(p) ==
    (IF notna(FirstRowOf(p).Onderzoek) /\ FirstRowOf(p).Onderzoek # <<>>
     THEN {"dc:title"} ELSE {})
    \cup (IF format_date(FirstRowOf(p).Startdatum) # None
          THEN {"schema:startDate"} ELSE {})
    \cup (IF format_date(FirstRowOf(p).Einddatum) # None
          THEN {"schema:endDate"} ELSE {})
    \cup (IF DatasetNamesOf(p) # {} THEN {"dc:requires"} ELSE {})

\* C19: a project whose start or end date cannot be parsed loses that date
\* line only: the file holds the block of the project with its title, its
\* other date and its dc:requires lines, and no line for the unparseable
\* date.
C19_BadDateOnlyOmitsDate ==
    Written =>
        \A p \in ProjectNumbers :
            (HasUnparseableDate(p) /\ RemainingKinds(p) # {}) =>
                /\ HasBlock(p)
                /\ RemainingKinds(p)
                      \subseteq KindsOf(LinesOf(outFile.lines, ProjectUri(p)))
                /\ Unparseable(FirstRowOf(p).Startdatum) =>
                      "schema:startDate"
                         \notin KindsOf(LinesOf(outFile.lines, ProjectUri(p)))
                /\ Unparseable(FirstRowOf(p).Einddatum) =>
                      "schema:endDate"
                         \notin KindsOf(LinesOf(outFile.lines, ProjectUri(p)))

----------------------------------------------------------------------------
(* C20 *)

\* C20: in the file a generator wrote, every subject line is followed by at
\* least one predicate-object line: an entity without a property has no
\* line in the file.
C20_NoBareSubject ==
    Written =>
        \A s \in SubjectIndexes(outFile.lines) :
            BlockLines(outFile.lines, s) # <<>>

----------------------------------------------------------------------------
(* C21 *)

\* a call of lookup_organization: its argument, and whether the file could
\* be written
LookupCall == pc = "lookup" /\ pc' = "lookup" /\ ret'.of = "lookup_organization"

\* the URI of the entry of a new name
UriOfName(name) == OrganizationUri(CleanedForm(name))

\* C21: in every call of lookup_organization, every entry the cache holds
\* stays as it is; a name in the cache gets its stored entry and the cache
\* file is not written; a new name gets an entry whose uri is the URI of the
\* name; and if the write succeeds the cache file holds exactly the cache
\* in memory.
C21_LookupKeepsCache ==
    [][LookupCall =>
         LET org_name == arg'[1]
             written == arg'[2]
         IN /\ \A n \in DOMAIN cache : n \in DOMAIN cache' /\ cache'[n] = cache[n]
            /\ org_name \in DOMAIN cache =>
                  /\ ret'.values = <<cache[org_name]>>
                  /\ cacheFile' = cacheFile
                  /\ cache' = cache
            /\ org_name \notin DOMAIN cache =>
                  /\ org_name \in DOMAIN cache'
                  /\ cache'[org_name].uri = UriOfName(org_name)
                  /\ ret'.values = <<cache'[org_name]>>
                  /\ written => cacheFile' = CacheFileOf("ok", cache')
    ]_vars

\* C21 witness: after a new name was cached and written, a name that the
\* loaded file held is looked up, and the file holds the cache in memory
C21_Witness ==
    /\ pc = "lookup"
    /\ ret.of = "lookup_organization"
    /\ arg[1] \in DOMAIN loadedCache
    /\ DOMAIN cache # DOMAIN loadedCache
    /\ cacheFile = CacheFileOf("ok", cache)

----------------------------------------------------------------------------
(* C22 *)

\* the URIs that are the object of a line of kind k
ObjectsOf(lines, k) == {lines[n].uri : n \in {m \in 1..Len(lines) : lines[m].k = k}}

\* the blocks with subject uri that hold a line of kind k
BlocksWith(lines, uri, k) ==
    {s \in BlocksOf(lines, uri) : k \in KindsOf(BlockLines(lines, s))}

\* C22: in the file a generator wrote, every object of a dc:requires line is
\* the subject of exactly one block, a dataset block, and in the file of
\* process_excel_to_turtle every object of a schema:parentOrganization line
\* is the subject of exactly one block, an organization block.
C22_ReferencesDefined ==
    Written =>
        /\ \A uri \in ObjectsOf(outFile.lines, "dc:requires") :
              /\ Cardinality(BlocksOf(outFile.lines, uri)) = 1
              /\ BlocksWith(outFile.lines, uri, "dc:alternative") # {}
        /\ ExcelWrote =>
              \A uri \in ObjectsOf(outFile.lines, "schema:parentOrganization") :
                  /\ Cardinality(BlocksOf(outFile.lines, uri)) = 1
                  /\ BlocksWith(outFile.lines, uri, "foaf:name") # {}

\* C22 witness: process_excel_to_turtle wrote a project with a dataset and
\* an organization
C22_Witness ==
    /\ ExcelWrote
    /\ ObjectsOf(outFile.lines, "dc:requires") # {}
    /\ ObjectsOf(outFile.lines, "schema:parentOrganization") # {}

----------------------------------------------------------------------------
(* C23 *)

\* the Turtle escape of a name: every backslash doubled, every double quote
\* preceded by one backslash
CorrectEscape(name) ==
    FlattenTo([n \in 1..Len(name) |->
                  IF name[n] = BS THEN <<BS, BS>>
                  ELSE IF name[n] = DQ THEN <<BS, DQ>>
                  ELSE <<name[n]>>],
              Len(name))

\* the literals of the dc:alternative lines of the file
AlternativeLiterals ==
    {outFile.lines[n].lit :
        n \in {m \in 1..Len(outFile.lines) : outFile.lines[m].k = "dc:alternative"}}

\* the dataset names of the sheet
SheetDatasetNames ==
    {df[n].Bestandsnaam : n \in {m \in 1..Len(df) : notna(df[m].Bestandsnaam)}}

\* C23: after generate_turtle_rdf and exactly one pass of
\* fix_backslashes_in_turtle, the dc:alternative literals of the file are
\* the correct escapes of the dataset names of the sheet.
C23_RepairedOnceCorrect ==
    (pc = "fixed" /\ fixes = 1) =>
        AlternativeLiterals = {CorrectEscape(name) : name \in SheetDatasetNames}

----------------------------------------------------------------------------
(* C24 *)

\* the organization names of the sheet
SheetOrganizationNames ==
    {df[n].Instelling : n \in {m \in 1..Len(df) : notna(df[m].Instelling)}}

\* C24: the org_type analyze_organization_name gives a name is a key of the
\* remapping table, and after the remapping pass over the profiles that
\* organization_lookup.main wrote, with a cache file the scripts wrote or
\* none, no foaf:focus statement is left and the remaining count is 0.
C24_NoFocusRemains ==
    /\ \A name \in SheetOrganizationNames :
          analyze_organization_name(name).org_type \in
              {"Educational Institution", "Organization", "Research Institute",
               "Private Company", "Government Agency"}
    /\ Replaced =>
          /\ \A n \in 1..Len(outFile.lines) : outFile.lines[n].k # "foaf:focus"
          /\ ret.values[3] = 0

\* C24 witness: the pass ran over a file with the profile of a private
\* company and of one more organization, and replaced their foaf:focus
\* statements
C24_Witness ==
    /\ Replaced
    /\ replacements = 1
    /\ ret.values[1] >= 2
    /\ \E n \in 1..Len(prevFile.lines) :
          prevFile.lines[n].k = "foaf:focus"
          /\ prevFile.lines[n].lit = <<"Private Company">>

----------------------------------------------------------------------------
(* C25 *)

\* C25: for every organization name, the category classify_organization
\* returns is the class the remapping table gives the org_type of
\* analyze_organization_name.
C25_ClassifiersAgree ==
    (ret.of = "classification"
       /\ DOMAIN ret.values = {"excel_to_turtle", "OrganizationLookup"}) =>
        ret.values["excel_to_turtle"]
            = value_mapping[ret.values["OrganizationLookup"]]

====
